---- MODULE Spec2Model ----
(***************************************************************************)
(* A model of the three passes of qis-unipr/noise-adaptive-compiler:       *)
(*   - NoiseAdaptiveSwap  (src/passes/NoiseAdaptiveSwap.py), the router,   *)
(*   - TransformCxCascade (src/passes/TransformCxCascade.py),              *)
(*   - ChainLayout        (src/passes/ChainLayout.py).                     *)
(* and of the driver that assembles them                                   *)
(*   - noise_pass_manager (src/pass_manager/noise_pass_manager_3.py).      *)
(* Each pass has its own specification (SpecRouter, SpecCascade,           *)
(* SpecChain, SpecDriver, ...); the variables of the other passes stay at  *)
(* their initial value.  An exception ends a pass in pc = "raised", with   *)
(* the class of the exception in `raised`.                                 *)
(* Qubits, wires and layers are numbered from 0 as in the source;          *)
(* lists are TLA+ sequences (1-based), so list index i of the source is    *)
(* element i+1 of the sequence.                                            *)
(***************************************************************************)
EXTENDS Integers, Sequences, FiniteSets, TLC

VARIABLES
    pc,              \* where the running pass stands
    new_dag,         \* the gates applied to the output DAG, in order
    raised,          \* the exception the pass ends with, if any
    property_set,    \* the property set of the pass manager
    \* NoiseAdaptiveSwap
    arguments,       \* the arguments of the constructor
    config,          \* the attributes the constructor has set
    dag_qregs,       \* dag.qregs: the quantum registers of the input DAG
    gates,           \* the op nodes of the input DAG, in order
    current_layout,  \* virtual qubit -> physical qubit
    to_map,          \* the front layer of remote gates
    to_execute,      \* the gates still to classify
    executed,        \* the gates committed so far
    frames,          \* history: the layouts of the frames of the last search_layout
    visited,         \* history: the loop-head states (layout, to_map, to_execute) seen
    candidates,      \* history: the swaps new_possible_swaps returned
    \* TransformCxCascade
    layers,          \* self._layers: per layer, its op nodes in order
    extra_layers,    \* self._extra_layers: layer index -> the gates queued after it
    skip,            \* self._skip
    layer_index,     \* i of `for i, layer in enumerate(self._layers)`
    op_index,        \* position of `gate` in layer.op_nodes() (from 1)
    runs,            \* history: the number of runs completed on this instance
    first_dag,       \* history: the DAG returned by the first run
    \* ChainLayout
    device,          \* the coupling graph and the backend properties
    called,          \* the method called: "run" or "chain"
    num_qubits,      \* the argument of chain
    current,         \* the end of the chain being built
    full_map,        \* the chain
    isolated,        \* the qubits left out of the chain
    isolated_with_data, \* (anchor, qubit) or (anchor, qubit, reliability)
    explored,
    to_explore,
    last_back_step,  \* -1 for None
    remaining,       \* the qubits the chain still lacks
    returned,        \* what chain returns
    \* noise_pass_manager
    options,         \* the arguments of noise_pass_manager
    manager          \* its local variables and the pass manager it builds

routerVars ==
    <<arguments, config, dag_qregs, current_layout, to_map, to_execute, executed,
      frames, visited, candidates>>
cascadeVars == <<layers, extra_layers, skip, layer_index, op_index, runs, first_dag>>
chainVars ==
    <<device, called, num_qubits, current, full_map, isolated, isolated_with_data,
      explored, to_explore, last_back_step, remaining, returned>>
driverVars == <<options, manager>>
vars ==
    <<pc, new_dag, gates, raised, property_set, routerVars, cascadeVars, chainVars,
      driverVars>>

\* ------------------------------------------------------------------ bounds
\* physical qubits of the device (= wires of the routed circuit)
NumQubits == 4
\* longest input circuit of the router
MaxGates == 3
\* largest search_depth the router is configured with
MaxDepth == 2
\* longest input circuit of the cascade rewriter
MaxCascadeGates == 4

Qubits == 0 .. (NumQubits - 1)

\* --------------------------------------------------------- small utilities
Range(s) == {s[i] : i \in DOMAIN s}

RECURSIVE SeqsUpTo(_, _)
\* all sequences over S of length at most n
SeqsUpTo(S, n) ==
    IF n = 0 THEN {<<>>}
    ELSE LET shorter == SeqsUpTo(S, n - 1)
         IN  shorter \cup {Append(s, x) : s \in {t \in shorter : Len(t) = n - 1}, x \in S}

RECURSIVE SetToSeq(_)
\* the elements of a finite set of integers in ascending order
SetToSeq(S) ==
    IF S = {} THEN <<>>
    ELSE LET m == CHOOSE x \in S : \A y \in S : x <= y
         IN  <<m>> \o SetToSeq(S \ {m})

Min(a, b) == IF a < b THEN a ELSE b
Max(a, b) == IF a < b THEN b ELSE a

SetMax(S) == CHOOSE x \in S : \A y \in S : y <= x
SetMin(S) == CHOOSE x \in S : \A y \in S : x <= y

RECURSIVE Pow2(_)
Pow2(n) == IF n = 0 THEN 1 ELSE 2 * Pow2(n - 1)

\* ------------------------------------------------- exact rational numbers
\* The scores of the router are Python floats; here they are exact
\* fractions <<numerator, denominator>> in lowest terms.
RECURSIVE GCD(_, _)
GCD(a, b) == IF b = 0 THEN a ELSE GCD(b, a % b)

Frac(n, d) == IF n = 0 THEN <<0, 1>> ELSE LET g == GCD(n, d) IN <<n \div g, d \div g>>

FracOne == <<1, 1>>

FracMul(x, y) ==
    IF x[1] = 0 \/ y[1] = 0 THEN <<0, 1>>
    ELSE LET g1 == GCD(x[1], y[2])
             g2 == GCD(y[1], x[2])
         IN  <<(x[1] \div g1) * (y[1] \div g2), (x[2] \div g2) * (y[2] \div g1)>>

RECURSIVE FracLessRaw(_, _, _, _)
\* a/b < c/d for a, c >= 0 and b, d > 0, by continued fractions (no products)
FracLessRaw(a, b, c, d) ==
    LET qa == a \div b
        qc == c \div d
        ra == a % b
        rc == c % d
    IN  IF qa # qc THEN qa < qc
        ELSE IF rc = 0 THEN FALSE
        ELSE IF ra = 0 THEN TRUE
        ELSE FracLessRaw(d, rc, b, ra)

FracLess(x, y) == FracLessRaw(x[1], x[2], y[1], y[2])

\* ----------------------------------------------------------- device model
\* The coupling maps the passes are constructed with (connected graphs on
\* NumQubits vertices, given as coupling lists):
\*   path : 0-1-2-...          star : 0 joined to every other qubit
\*   kite : the path with the extra edge (NumQubits-3, NumQubits-1)
GraphNames == {"path", "star", "kite"}

CouplingList(g) ==
    CASE g = "path" -> {<<i, i + 1>> : i \in 0 .. (NumQubits - 2)}
      [] g = "star" -> {<<0, i>> : i \in 1 .. (NumQubits - 1)}
      [] g = "kite" -> {<<i, i + 1>> : i \in 0 .. (NumQubits - 2)}
                          \cup {<<NumQubits - 3, NumQubits - 1>>}

\* self._coupling_graph: the undirected adjacency of the coupling map
coupling_graph ==
    [g \in GraphNames |-> [u \in Qubits |->
        {v \in Qubits : <<u, v>> \in CouplingList(g) \/ <<v, u>> \in CouplingList(g)}]]

IsEdge(g, u, v) == v \in coupling_graph[g][u]

\* "no path": larger than every path weight of the model
Infinity == 1000 * NumQubits

RECURSIVE FloydWarshall(_, _)
\* networkx floyd_warshall_predecessor_and_distance after its outer loop has
\* run over the first k nodes: dist[u][v], and pred[u][v] the predecessor of
\* v on the path from u (-1 where none); an entry changes only when the path
\* through the new node is strictly shorter.
FloydWarshall(weight, k) ==
    IF k = 0
    THEN [dist |-> [u \in Qubits |-> [v \in Qubits |-> IF u = v THEN 0 ELSE weight[u][v]]],
          pred |-> [u \in Qubits |-> [v \in Qubits |->
                        IF u # v /\ weight[u][v] < Infinity THEN u ELSE -1]]]
    ELSE LET prev == FloydWarshall(weight, k - 1)
             w == k - 1
             Shorter(u, v) == prev.dist[u][w] + prev.dist[w][v] < prev.dist[u][v]
         IN  [dist |-> [u \in Qubits |-> [v \in Qubits |->
                            IF Shorter(u, v) THEN prev.dist[u][w] + prev.dist[w][v]
                            ELSE prev.dist[u][v]]],
              pred |-> [u \in Qubits |-> [v \in Qubits |->
                            IF Shorter(u, v) THEN prev.pred[w][v] ELSE prev.pred[u][v]]]]

HopWeight(g) == [u \in Qubits |-> [v \in Qubits |-> IF IsEdge(g, u, v) THEN 1 ELSE Infinity]]

\* CouplingMap.distance(u, v): hops between u and v, per coupling map
distance == [g \in GraphNames |-> FloydWarshall(HopWeight(g), NumQubits).dist]

\* self._max_distance
max_distance ==
    [g \in GraphNames |-> SetMax({distance[g][x][y] : x, y \in Qubits})]

\* CouplingMap.shortest_undirected_path(a, b); the graphs of the model have a
\* unique shortest path between any two qubits
RECURSIVE shortest_undirected_path(_, _, _)
shortest_undirected_path(g, a, b) ==
    IF a = b THEN <<a>>
    ELSE LET nxt == CHOOSE n \in coupling_graph[g][a] : distance[g][n][b] = distance[g][a][b] - 1
         IN  <<a>> \o shortest_undirected_path(g, nxt, b)

\* Calibration data (backend_prop).  The reliability of cx(u,v) is
\* g_reliab = 1 - gate_error = 2^(-GateErrorExp), so that every product the
\* constructor forms is an exact power of two:
\*   tail : gate_error 1/2 on the edges of the last qubit, 0 elsewhere
\*   head : gate_error 0 on the edge (0,1), 1/2 elsewhere
Calibrations == {"tail", "head"}

\* GateErrorExp of an edge with gate_error 1, whose reliability is 0
Dead == Infinity

\* Calibrations with an edge of reliability 0:
\*   dead : gate_error 1 on the edge (NumQubits-3, NumQubits-1), 1/2 elsewhere
\*   cut  : gate_error 1 on the edge (0,1), 0 elsewhere
\*   rim  : gate_error 1 on the edge (NumQubits-2, NumQubits-1), 1/2 elsewhere
DeadCalibrations == {"dead", "cut", "rim"}

GateErrorExp(c, u, v) ==
    CASE c = "tail" -> IF u = NumQubits - 1 \/ v = NumQubits - 1 THEN 1 ELSE 0
      [] c = "head" -> IF {u, v} = {0, 1} THEN 0 ELSE 1
      [] c = "dead" -> IF {u, v} = {NumQubits - 3, NumQubits - 1} THEN Dead ELSE 1
      [] c = "cut" -> IF {u, v} = {0, 1} THEN Dead ELSE 0
      [] c = "rim" -> IF {u, v} = {NumQubits - 2, NumQubits - 1} THEN Dead ELSE 1

\* Edge weights are counted in units of (log 2) / CostUnit.  The weight
\* 10**(-10) of line 98 counts as one unit: it is positive and, added up
\* along two paths, stays below the weight of any edge of reliability 1/2.
CostUnit == 4 * NumQubits

\* swap_cost = -log(swap_reliab) if swap_reliab != 0 else 10**(-10), for
\* swap_reliab = g_reliab^3 = 2^(-3x)
swap_cost(x) == IF x = Dead THEN 1 ELSE 3 * x * CostUnit

\* the weights of self.swap_graph
SwapWeight(g, c) ==
    [u \in Qubits |-> [v \in Qubits |->
        IF IsEdge(g, u, v) THEN swap_cost(GateErrorExp(c, u, v)) ELSE Infinity]]

\* (self.swap_paths, swap_reliabs_temp) of the constructor
swap_graph_tables ==
    [g \in GraphNames |-> [c \in Calibrations \cup DeadCalibrations |->
        FloydWarshall(SwapWeight(g, c), NumQubits)]]

swap_paths(g, c) == swap_graph_tables[g][c].pred

\* self.swap_reliabs before the rescaling, as the exponent x of 2^(-x)
RawReliabExp ==
    [g \in GraphNames |-> [c \in Calibrations |-> [i \in Qubits |-> [j \in Qubits |->
        IF IsEdge(g, i, j) THEN GateErrorExp(c, i, j)
        ELSE SetMin({swap_graph_tables[g][c].dist[i][n] \div CostUnit + GateErrorExp(c, n, j) :
                        n \in coupling_graph[g][j]})]]]]

\* exponent of min_reliab (never above 1.0) and of max_reliab
MinReliabExp(g, c) == SetMax({RawReliabExp[g][c][i][j] : i, j \in Qubits} \cup {0})

MaxReliabExp(g, c) == SetMin({RawReliabExp[g][c][i][j] : i, j \in Qubits})

\* The constructor divides by max_reliab - min_reliab.
ConstructorCompletes(g, c) == MinReliabExp(g, c) # MaxReliabExp(g, c)

\* self.swap_reliabs[i][j] = (raw - min_reliab) / (max_reliab - min_reliab),
\* kept as a numerator over the common denominator SwapReliabDen
SwapReliabDen ==
    [g \in GraphNames |-> [c \in Calibrations |->
        Pow2(MinReliabExp(g, c) - MaxReliabExp(g, c)) - 1]]

swap_reliabs ==
    [g \in GraphNames |-> [c \in Calibrations |-> [i \in Qubits |-> [j \in Qubits |->
        Pow2(MinReliabExp(g, c) - RawReliabExp[g][c][i][j]) - 1]]]]

\* ------------------------------------------------------------ circuit gates
\* A gate node: its position in the input (id), its name, its qubit operands
\* (qargs) and the classical bits it writes or is conditioned on (clbits).
\* Inserted swaps carry id -1.
Opaque == {"barrier", "snapshot", "save", "load", "noise"}

GateNode(i, nm, qs, cs) == [id |-> i, name |-> nm, qargs |-> qs, clbits |-> cs]

\* two gates share a wire of the DAG: a qubit, or a classical bit
ShareWire(g, h) ==
    \/ Range(g.qargs) \cap Range(h.qargs) # {}
    \/ g.clbits \cap h.clbits # {}

\* ------------------------------------------------------ NoiseAdaptiveSwap
\* A configuration of the router:
\*   graph, cal            the coupling map and the calibration data
\*   alpha                 <<numerator, denominator>> of self._alpha
\*   search_depth, n_swaps, next_gates, front    the keyword arguments

\* a swap that moves only the virtual qubit found on `left`
LayoutSwapOneSided(layout, left, right) ==
    [q \in DOMAIN layout |-> IF layout[q] = left THEN right ELSE layout[q]]

\* a gate emitted with its virtual operands
execute_gate_unmapped(gate, layout) == gate

\* Layout.swap(left, right) for two physical qubits: the virtual qubits
\* assigned to them exchange their places
LayoutSwap(layout, left, right) ==
    LET vl == CHOOSE q \in DOMAIN layout : layout[q] = left
        vr == CHOOSE q \in DOMAIN layout : layout[q] = right
    IN  [layout EXCEPT ![vr] = left, ![vl] = right]

\* get_phys_qubit / layout[virt_qubit]
get_phys_qubit(virt_qubit, layout) == layout[virt_qubit]

\* execute_gate: a copy of the gate with its operands mapped by the layout
execute_gate(gate, layout) ==
    [gate EXCEPT !.qargs = [i \in DOMAIN gate.qargs |-> layout[gate.qargs[i]]]]

\* execute_swap_gate: the Swap gate on the two physical qubits of the swap
execute_swap_gate(swap) == GateNode(-1, "swap", swap.swap, {})

\* One iteration of the classification loop of update_to_map and
\* update_to_execute (they differ only in keeping a remote gate in
\* to_execute as well): acc holds busy, executed, to_execute, to_map.
ClassifyGate(cfg, layout, gate, acc, keep_remote) ==
    LET qargs == gate.qargs
        qs == Range(qargs)
    IN  IF gate.name \in Opaque
        THEN IF qargs = <<>> THEN acc
             ELSE IF acc.busy \cap qs # {}
             THEN [acc EXCEPT !.busy = @ \cup qs, !.to_execute = Append(@, gate)]
             ELSE [acc EXCEPT !.executed = Append(@, execute_gate(gate, layout))]
        ELSE IF acc.busy \cap qs = {}
        THEN IF Len(qargs) = 1
             THEN [acc EXCEPT !.executed = Append(@, execute_gate(gate, layout))]
             ELSE IF distance[cfg.graph][layout[qargs[1]]][layout[qargs[2]]] = 1
             THEN [acc EXCEPT !.executed = Append(@, execute_gate(gate, layout))]
             ELSE [acc EXCEPT !.to_map = Append(@, gate),
                              !.busy = @ \cup qs,
                              !.to_execute = IF keep_remote THEN Append(@, gate) ELSE @]
        ELSE [acc EXCEPT !.to_execute = Append(@, gate), !.busy = @ \cup qs]

RECURSIVE ClassifyAll(_, _, _, _, _, _)
ClassifyAll(cfg, layout, temp, i, acc, keep_remote) ==
    IF i > Len(temp) THEN acc
    ELSE ClassifyAll(cfg, layout, temp, i + 1,
                     ClassifyGate(cfg, layout, temp[i], acc, keep_remote), keep_remote)

EmptyClassification == [busy |-> {}, executed |-> <<>>, to_execute |-> <<>>, to_map |-> <<>>]

\* update_to_map(to_map, layout, gates): the deferred front gates are
\* classified again ahead of the remaining gates
update_to_map(cfg, tomap, layout, gs) ==
    ClassifyAll(cfg, layout, tomap \o gs, 1, EmptyClassification, FALSE)

\* update_to_execute(gates, layout)
update_to_execute(cfg, gs, layout) ==
    ClassifyAll(cfg, layout, gs, 1, EmptyClassification, TRUE)

\* the two-qubit non-opaque gates
IsTwoQubitGate(gate) == gate.name \notin Opaque /\ Len(gate.qargs) = 2

RECURSIVE FirstTwoQubitGates(_, _)
\* the gates the distance loop of score_swap_alpha counts: the two-qubit
\* gates of to_execute until the budget, decremented per counted gate,
\* reaches 0
FirstTwoQubitGates(gs, budget) ==
    IF gs = <<>> THEN <<>>
    ELSE IF IsTwoQubitGate(Head(gs))
         THEN IF budget - 1 = 0 THEN <<Head(gs)>>
              ELSE <<Head(gs)>> \o FirstTwoQubitGates(Tail(gs), budget - 1)
         ELSE FirstTwoQubitGates(Tail(gs), budget)

RECURSIVE SumReliab(_, _, _)
\* the sum of the entries of swap_reliabs (their numerators) over the gates
SumReliab(cfg, gs, temp_layout) ==
    IF gs = <<>> THEN 0
    ELSE swap_reliabs[cfg.graph][cfg.cal][get_phys_qubit(Head(gs).qargs[1], temp_layout)]
                                         [get_phys_qubit(Head(gs).qargs[2], temp_layout)]
            + SumReliab(cfg, Tail(gs), temp_layout)

RECURSIVE SumDistance(_, _, _)
\* the sum of distance - 1 over the gates (0 for a gate that is adjacent)
SumDistance(cfg, gs, temp_layout) ==
    IF gs = <<>> THEN 0
    ELSE distance[cfg.graph][get_phys_qubit(Head(gs).qargs[1], temp_layout)]
                            [get_phys_qubit(Head(gs).qargs[2], temp_layout)] - 1
            + SumDistance(cfg, Tail(gs), temp_layout)

\* alpha * reliab + (1 - alpha) * (1 - distance) as one exact fraction, for
\* reliab = reliab_sum / reliab_den and distance = dist_sum / dist_den
ScoreValue(alpha, reliab_sum, reliab_den, dist_sum, dist_den) ==
    Frac(alpha[1] * reliab_sum * dist_den
            + (alpha[2] - alpha[1]) * (dist_den - dist_sum) * reliab_den,
         alpha[2] * reliab_den * dist_den)

\* the score on the layout after the swap: reliab_gates are the gates whose
\* reliability is averaged, dist_gates those whose distance is averaged
ScoreOnLayout(cfg, temp_layout, reliab_gates, dist_gates) ==
    ScoreValue(cfg.alpha,
               SumReliab(cfg, reliab_gates, temp_layout),
               SwapReliabDen[cfg.graph][cfg.cal] * Len(reliab_gates),
               SumDistance(cfg, dist_gates, temp_layout),
               (max_distance[cfg.graph] - 1) * Len(dist_gates))

\* score_swap_alpha(swap, layout, to_execute, next_gates, to_map)
score_swap_alpha(cfg, swap, layout, toexec, next_gates, tomap) ==
    ScoreOnLayout(cfg, LayoutSwap(layout, swap[1], swap[2]),
                  tomap \o SelectSeq(SubSeq(toexec, 1, Min(next_gates, Len(toexec))),
                                     IsTwoQubitGate),
                  tomap \o FirstTwoQubitGates(toexec, next_gates))

\* score_swap
score_swap(cfg, swap, layout, toexec, next_gates, tomap) ==
    score_swap_alpha(cfg, swap, layout, toexec, next_gates, tomap)

RECURSIVE SortedByScore(_)
\* sorted(possible_swaps, key=score, reverse=True): descending and stable
SortedByScore(s) ==
    IF Len(s) <= 1 THEN s
    ELSE LET x == Head(s)
             rest == SortedByScore(Tail(s))
             before == SelectSeq(rest, LAMBDA y : FracLess(x.score, y.score))
             after == SelectSeq(rest, LAMBDA y : ~FracLess(x.score, y.score))
         IN  before \o <<x>> \o after

\* the default of the parameter n of new_possible_swaps
DefaultSwaps == 4

RECURSIVE FlattenQargs(_, _)
\* qubits: the physical operands of the gates of to_map, in order
FlattenQargs(gs, layout) ==
    IF gs = <<>> THEN <<>>
    ELSE [i \in DOMAIN Head(gs).qargs |-> get_phys_qubit(Head(gs).qargs[i], layout)]
            \o FlattenQargs(Tail(gs), layout)

RECURSIVE ProposeSwaps(_, _, _, _, _, _, _)
\* the double loop of new_possible_swaps over q in qubits and the
\* neighbours v of q (in ascending order): pairs lists the (q, v) still to
\* visit, swap_qubits the pairs already proposed (and the last swap)
ProposeSwaps(cfg, pairs, swap_qubits, possible, layout, toexec, tomap) ==
    IF pairs = <<>> THEN possible
    ELSE LET q == Head(pairs)[1]
             v == Head(pairs)[2]
         IN  IF <<q, v>> \in swap_qubits \/ <<v, q>> \in swap_qubits
             THEN ProposeSwaps(cfg, Tail(pairs), swap_qubits, possible, layout, toexec, tomap)
             ELSE ProposeSwaps(cfg, Tail(pairs), swap_qubits \cup {<<q, v>>},
                      Append(possible,
                             [swap |-> <<q, v>>,
                              score |-> score_swap(cfg, <<q, v>>, layout, toexec,
                                                   cfg.next_gates, tomap)]),
                      layout, toexec, tomap)

RECURSIVE NeighbourPairs(_, _)
NeighbourPairs(g, qubits) ==
    IF qubits = <<>> THEN <<>>
    ELSE LET q == Head(qubits)
             vs == SetToSeq(coupling_graph[g][q])
         IN  [i \in DOMAIN vs |-> <<q, vs[i]>>] \o NeighbourPairs(g, Tail(qubits))

\* possible_swaps[:n]
FirstN(s, n) == SubSeq(s, 1, Min(n, Len(s)))

\* new_possible_swaps(to_map, layout, to_execute, last_swap=last_swap);
\* last_swap is <<>> for None; n keeps its default
new_possible_swaps(cfg, tomap, layout, toexec, last_swap) ==
    FirstN(SortedByScore(ProposeSwaps(cfg,
                                      NeighbourPairs(cfg.graph, FlattenQargs(tomap, layout)),
                                      IF last_swap = <<>> THEN {} ELSE {last_swap},
                                      <<>>, layout, toexec, tomap)),
           DefaultSwaps)

\* k references to the one dict `swap`
Copies(entry, k) == [i \in 1 .. k |-> entry]

\* possible_swaps(remote_cnot, layout, to_execute, n).  The source stores
\* every candidate in the one dict `swap`, so each entry of the returned
\* list reads the swap and score stored last before the return:
\*   n = 1: the step from qubits[0] along the most reliable path,
\*   n = 2: the step from qubits[1] along the most reliable path,
\*   n > 2: the step from qubits[1] along the shortest path (the two
\*          shortest-path candidates are never appended, `swap` being found
\*          in possible_swaps), repeated for each entry taken from
\*          extra_swaps.
possible_swaps(cfg, remote_cnot, layout, toexec, n) ==
    LET q0 == get_phys_qubit(remote_cnot.qargs[1], layout)
        q1 == get_phys_qubit(remote_cnot.qargs[2], layout)
        extra_len == Cardinality(coupling_graph[cfg.graph][q0])
                        + Cardinality(coupling_graph[cfg.graph][q1])
        shortest_path == shortest_undirected_path(cfg.graph, q0, q1)
        last_stored ==
            IF n = 1 THEN <<q0, swap_paths(cfg.graph, cfg.cal)[q1][q0]>>
            ELSE IF n = 2 THEN <<q1, swap_paths(cfg.graph, cfg.cal)[q0][q1]>>
            ELSE <<q1, shortest_path[Len(shortest_path) - 1]>>
        Scored(sw) == [swap |-> sw,
                       score |-> score_swap(cfg, sw, layout, toexec, cfg.next_gates, <<>>)]
    IN  Copies(Scored(last_stored), IF n <= 2 THEN n ELSE 2 + Min(n - 2, extra_len - 2))

RECURSIVE BestIndexOfLowest(_, _, _)
\* the index of the step of lowest score
BestIndexOfLowest(steps, i, best) ==
    IF i > Len(steps) THEN best
    ELSE IF best = 0 \/ FracLess(steps[i].score, steps[best].score)
         THEN BestIndexOfLowest(steps, i + 1, i)
         ELSE BestIndexOfLowest(steps, i + 1, best)

RECURSIVE BestIndex(_, _, _)
\* the loop `if next_swap is None or next_step['score'] > best_step['score']`
\* over steps[i ..], best being the index kept so far (0: none yet)
BestIndex(steps, i, best) ==
    IF i > Len(steps) THEN best
    ELSE IF best = 0 \/ FracLess(steps[best].score, steps[i].score)
         THEN BestIndex(steps, i + 1, i)
         ELSE BestIndex(steps, i + 1, best)

RECURSIVE search_layout(_, _, _, _, _, _)
RECURSIVE ExploreSwaps(_, _, _, _, _, _)
\* the loop `for swap in possible_swaps` of search_layout from candidate i
\* on: the step found below each candidate, its score multiplied by the
\* candidate's
ExploreSwaps(cfg, swaps, i, cls, layout, iter) ==
    IF i > Len(swaps) THEN <<>>
    ELSE <<[search_layout(cfg, IF cfg.front THEN cls.to_map ELSE <<>>,
                          LayoutSwap(layout, swaps[i].swap[1], swaps[i].swap[2]),
                          cls.to_execute, iter - 1, swaps[i].swap)
               EXCEPT !.score = FracMul(swaps[i].score, @)]>>
            \o ExploreSwaps(cfg, swaps, i + 1, cls, layout, iter)

\* the step returned once the best candidate is known; frames (not in the
\* source) collects the layouts of this frame and of every frame below it
BestStep(cls, layout, next_swap, best_step, steps) ==
    [to_map |-> best_step.to_map,
     to_execute |-> best_step.to_execute,
     executed |-> cls.executed \o <<execute_swap_gate(next_swap)>> \o best_step.executed,
     score |-> best_step.score,
     layout |-> best_step.layout,
     frames |-> {layout} \cup UNION {steps[i].frames : i \in DOMAIN steps}]

ChooseStep(cls, layout, swaps, steps, b) == BestStep(cls, layout, swaps[b], steps[b], steps)

SearchSwaps(cls, layout, swaps, steps) ==
    ChooseStep(cls, layout, swaps, steps, BestIndex(steps, 1, 0))

\* the candidate loop of search_layout and the choice of the best step
ExploreFrame(cfg, cls, layout, iter, swaps) ==
    SearchSwaps(cls, layout, swaps, ExploreSwaps(cfg, swaps, 1, cls, layout, iter))

\* search_layout after the classification cls of its gates
SearchFrame(cfg, cls, layout, iter, last_swap) ==
    IF iter = 0 \/ cls.to_map = <<>>
    THEN [to_map |-> cls.to_map, to_execute |-> cls.to_execute,
          executed |-> cls.executed, score |-> FracOne,
          layout |-> layout, frames |-> {layout}]
    ELSE ExploreFrame(cfg, cls, layout, iter,
                      IF cfg.front
                      THEN new_possible_swaps(cfg, cls.to_map, layout, cls.to_execute, last_swap)
                      ELSE possible_swaps(cfg, cls.to_map[1], layout, cls.to_execute,
                                          cfg.n_swaps))

\* search_layout(to_map, layout, gates, iter, last_swap)
search_layout(cfg, to_map_in, layout, gates_in, iter, last_swap) ==
    SearchFrame(cfg,
                IF cfg.front THEN update_to_map(cfg, to_map_in, layout, gates_in)
                ELSE update_to_execute(cfg, gates_in, layout),
                layout, iter, last_swap)

\* the variables of TransformCxCascade while another pass runs
CascadeIdle ==
    /\ layers = <<>>
    /\ extra_layers = <<>>
    /\ skip = <<>>
    /\ layer_index = 0
    /\ op_index = 0
    /\ runs = 0
    /\ first_dag = <<>>

\* the variables of ChainLayout while another pass runs
ChainIdle ==
    /\ device = <<>>
    /\ called = ""
    /\ num_qubits = 0
    /\ current = 0
    /\ full_map = <<>>
    /\ isolated = <<>>
    /\ isolated_with_data = <<>>
    /\ explored = {}
    /\ to_explore = <<>>
    /\ last_back_step = -1
    /\ remaining = 0
    /\ returned = <<>>

\* the variables of noise_pass_manager while a pass runs alone
DriverIdle ==
    /\ options = <<>>
    /\ manager = <<>>

\* a new PropertySet: every property reads None (<<>>)
PropertySet == [layout |-> <<>>]

\* nothing is raised, no property is set
NothingRaised ==
    /\ raised = ""
    /\ property_set = PropertySet

\* -------------------------------------------------- the router as a machine
\* The inputs of the router.  One classical bit (0) is enough to order a
\* measurement and a gate conditioned on its result.
RouterGateKinds ==
    {<<"cx", <<p[1], p[2]>>, {}>> : p \in {q \in Qubits \X Qubits : q[1] < q[2]}}
    \cup {<<"u3", <<0>>, {}>>,               \* a one-qubit gate
          <<"measure", <<0>>, {0}>>,         \* measure q[0] -> c[0]
          <<"u3", <<1>>, {0}>>,              \* a one-qubit gate on q[1] if c == 1
          <<"barrier", <<0, 1>>, {}>>,
          <<"snapshot", <<>>, {}>>}          \* an opaque marker without qubit operands

RouterCircuits ==
    {[i \in DOMAIN ks |-> GateNode(i, ks[i][1], ks[i][2], ks[i][3])] :
        ks \in SeqsUpTo(RouterGateKinds, MaxGates)}

Alphas == {<<0, 1>>, <<1, 2>>, <<1, 1>>}

\* values of the keyword alpha outside [0, 1]
BadAlphas == {<<-1, 2>>, <<3, 2>>}

\* The calls of the constructor explored: the coupling map, the backend
\* properties and the keyword arguments (a keyword that is not passed is not
\* in the domain).  search_depth is always passed; n_swaps is not read in
\* front-layer mode and is not passed there; next_gates is never passed.
Keywords(alpha, n_swaps, front) ==
    (IF alpha = <<>> THEN <<>> ELSE [k \in {"alpha"} |-> alpha])
        @@ (IF n_swaps = 0 THEN <<>> ELSE [k \in {"n_swaps"} |-> n_swaps])
        @@ (IF front THEN [k \in {"front"} |-> TRUE] ELSE <<>>)

RouterArguments ==
    {[k \in {"coupling_map"} |-> g] @@ [k \in {"backend_prop"} |-> c]
        @@ [k \in {"search_depth"} |-> d] @@ Keywords(a, nf[1], nf[2]) :
        g \in GraphNames, c \in Calibrations, d \in 1 .. MaxDepth,
        a \in Alphas \cup BadAlphas \cup {<<>>},
        nf \in {x \in {0, 1, 2} \X BOOLEAN : x[2] => x[1] = 0}}

\* the test of line 45 on alpha = numerator / denominator, with the bounds
\* 0 and 1 taken as invalid too
AlphaOutsideOpen(alpha) == alpha[1] >= alpha[2] \/ alpha[1] <= 0

\* kwargs['alpha'] > 1 or kwargs['alpha'] < 0
AlphaOutside(alpha) == alpha[1] > alpha[2] \/ alpha[1] < 0

\* the attributes __init__ sets from its arguments
Attributes(kwargs) ==
    [graph |-> kwargs["coupling_map"],
     cal |-> kwargs["backend_prop"],
     alpha |-> kwargs["alpha"],
     search_depth |-> IF "search_depth" \in DOMAIN kwargs THEN kwargs["search_depth"] ELSE 4,
     n_swaps |-> IF "n_swaps" \in DOMAIN kwargs THEN kwargs["n_swaps"] ELSE 4,
     next_gates |-> IF "next_gates" \in DOMAIN kwargs THEN kwargs["next_gates"] ELSE 5,
     front |-> IF "front" \in DOMAIN kwargs THEN kwargs["front"] ELSE FALSE]

\* the exception __init__ ends with ("" for none)
InitRaises(kwargs) ==
    IF "alpha" \notin DOMAIN kwargs THEN "KeyError"
    ELSE IF AlphaOutside(kwargs["alpha"]) THEN "TranspilerError"
    ELSE IF ~ConstructorCompletes(kwargs["coupling_map"], kwargs["backend_prop"])
         THEN "ZeroDivisionError"
         ELSE ""

\* The configurations a completed constructor leaves.
RouterConfigs ==
    {Attributes(kwargs) : kwargs \in {k \in RouterArguments : InitRaises(k) = ""}}

\* Layout.generate_trivial_layout(canonical_register)
TrivialLayout == [q \in Qubits |-> q]

\* dag.qregs: the registers by name and size.  Beside the register q of
\* NumQubits qubits: q with one qubit too many, a register of another name,
\* and q followed by a second register.
QReg(name, size) == [name |-> name, size |-> size]

CanonicalRegister == <<QReg("q", NumQubits)>>

OtherRegisters ==
    {<<QReg("q", NumQubits + 1)>>, <<QReg("r", NumQubits)>>,
     <<QReg("q", NumQubits), QReg("r", 1)>>}

\* len(dag.qubits())
RECURSIVE NumDagQubits(_)
NumDagQubits(qregs) ==
    IF qregs = <<>> THEN 0 ELSE Head(qregs).size + NumDagQubits(Tail(qregs))

\* The DAGs run is called on: every circuit on the register q, and the
\* circuits of at most one gate on the other registers.
RouterDags ==
    {[qregs |-> CanonicalRegister, gates |-> c] : c \in RouterCircuits}
    \cup {[qregs |-> r, gates |-> c] :
            r \in OtherRegisters, c \in {x \in RouterCircuits : Len(x) <= 1}}

\* run without the test of line 163
RunRaisesUnlessSized(qregs) ==
    IF Len(qregs) # 1 \/ \A i \in DOMAIN qregs : qregs[i].name # "q" THEN "TranspilerError"
    ELSE ""

\* the exception run raises before it builds anything ("" for none)
RunRaises(qregs) ==
    IF Len(qregs) # 1 \/ \A i \in DOMAIN qregs : qregs[i].name # "q" THEN "TranspilerError"
    ELSE IF NumDagQubits(qregs) > NumQubits THEN "TranspilerError"
    ELSE ""

InitRouter ==
    /\ pc = "init"
    /\ new_dag = <<>>
    /\ NothingRaised
    /\ arguments \in RouterArguments
    /\ config = <<>>
    /\ dag_qregs = <<>>
    /\ gates = <<>>
    /\ current_layout = TrivialLayout
    /\ to_map = <<>>
    /\ to_execute = <<>>
    /\ executed = <<>>
    /\ frames = {}
    /\ visited = {}
    /\ candidates = <<>>
    /\ CascadeIdle
    /\ ChainIdle
    /\ DriverIdle

\* the router does not touch the state of the other passes
RouterOnly == UNCHANGED <<property_set, arguments, candidates, cascadeVars, chainVars, driverVars>>

\* __init__
Construct ==
    /\ RouterOnly
    /\ pc = "init"
    /\ raised' = InitRaises(arguments)
    /\ IF raised' = ""
       THEN config' = Attributes(arguments) /\ pc' = "run"
       ELSE UNCHANGED config /\ pc' = "raised"
    /\ UNCHANGED <<new_dag, gates, dag_qregs, current_layout, to_map, to_execute,
                   executed, frames, visited>>

\* run on a DAG, up to the first test of the loop condition
RunBegin ==
    /\ RouterOnly
    /\ pc = "run"
    /\ \E dag \in RouterDags :
          /\ dag_qregs' = dag.qregs
          /\ gates' = dag.gates
          /\ raised' = RunRaises(dag.qregs)
          /\ IF raised' # ""
             THEN /\ pc' = "raised"
                  /\ UNCHANGED <<to_execute, to_map, executed>>
             ELSE /\ pc' = "loop"
                  /\ IF config.front
                     THEN \E cls \in {update_to_map(config, <<>>, TrivialLayout, dag.gates)} :
                              /\ to_execute' = cls.to_execute
                              /\ to_map' = cls.to_map
                              /\ executed' = cls.executed
                     ELSE /\ to_execute' = dag.gates
                          /\ to_map' = <<>>
                          /\ executed' = <<>>
    /\ current_layout' = TrivialLayout
    /\ UNCHANGED <<new_dag, config, frames, visited>>

LoopHead == <<current_layout, to_map, to_execute>>

\* one round of `while to_map` (front-layer mode)
FrontStep ==
    /\ RouterOnly
    /\ pc = "loop"
    /\ config.front
    /\ to_map # <<>>
    /\ LoopHead \notin visited
    /\ \E next_step \in {search_layout(config, to_map, current_layout, to_execute,
                                       config.search_depth, <<>>)} :
            /\ current_layout' = next_step.layout
            /\ to_map' = next_step.to_map
            /\ to_execute' = next_step.to_execute
            /\ executed' = executed \o next_step.executed
            /\ frames' = next_step.frames
    /\ visited' = visited \cup {LoopHead}
    /\ UNCHANGED <<pc, new_dag, raised, config, dag_qregs, gates>>

\* one round of `while to_execute` (single-gate mode)
SingleStep ==
    /\ RouterOnly
    /\ pc = "loop"
    /\ ~config.front
    /\ to_execute # <<>>
    /\ LoopHead \notin visited
    /\ \E next_step \in {search_layout(config, <<>>, current_layout, to_execute,
                                       config.search_depth, <<>>)} :
            /\ current_layout' = next_step.layout
            /\ to_execute' = next_step.to_execute
            /\ executed' = executed \o next_step.executed
            /\ frames' = next_step.frames
    /\ visited' = visited \cup {LoopHead}
    /\ UNCHANGED <<pc, new_dag, raised, config, dag_qregs, gates, to_map>>

\* The loop is deterministic: once a loop-head state comes back, the rounds
\* between its two visits repeat for ever.
LoopRepeats ==
    /\ RouterOnly
    /\ pc = "loop"
    /\ IF config.front THEN to_map # <<>> ELSE to_execute # <<>>
    /\ LoopHead \in visited
    /\ pc' = "cycle"
    /\ UNCHANGED <<new_dag, gates, raised, routerVars>>

\* the loop condition fails: the executed gates are applied to new_dag
RunReturn ==
    /\ RouterOnly
    /\ pc = "loop"
    /\ IF config.front THEN to_map = <<>> ELSE to_execute = <<>>
    /\ new_dag' = executed
    /\ pc' = "done"
    /\ UNCHANGED <<gates, raised, routerVars>>

NextRouter == Construct \/ RunBegin \/ FrontStep \/ SingleStep \/ LoopRepeats \/ RunReturn

SpecRouter == InitRouter /\ [][NextRouter]_vars

\* ------------------------------------------------ properties of the router
\* the input gate an output gate was made from (swaps have none)
IsInputGate(g) == g.id \in DOMAIN gates

\* the input gate was remote under the trivial layout
WasRemote(g) ==
    /\ IsInputGate(g)
    /\ IsTwoQubitGate(g)
    /\ distance[config.graph][gates[g.id].qargs[1]][gates[g.id].qargs[2]] > 1

OnCouplingEdge(g) ==
    (g.name \notin Opaque /\ Len(g.qargs) = 2)
        => IsEdge(config.graph, g.qargs[1], g.qargs[2])

\* C1: every two-qubit non-opaque gate the router commits and returns (a
\* routed cx or an inserted swap, in both modes) acts on two physical qubits
\* joined by an edge of the coupling graph.
C1_TwoQubitGatesOnEdges ==
    /\ \A i \in DOMAIN executed : OnCouplingEdge(executed[i])
    /\ \A i \in DOMAIN new_dag : OnCouplingEdge(new_dag[i])

\* run has returned a circuit holding an inserted swap and a cx that was
\* remote in the input
C1_RoutedRemoteGate ==
    /\ pc = "done"
    /\ \E i \in DOMAIN new_dag : new_dag[i].name = "swap"
    /\ \E i \in DOMAIN new_dag : WasRemote(new_dag[i])

\* C2: when run returns, every input gate is in the output exactly once
\* (same name, nothing dropped, nothing duplicated) and every other gate of
\* the output is a swap.
C2_GateMultisetPreserved ==
    pc = "done" =>
        /\ \A i \in DOMAIN gates :
              Cardinality({j \in DOMAIN new_dag :
                              new_dag[j].id = i /\ new_dag[j].name = gates[i].name}) = 1
        /\ \A j \in DOMAIN new_dag : new_dag[j].name = "swap" \/ IsInputGate(new_dag[j])

\* C3: two input gates that share a wire are committed in the order they
\* have in the input.
C3_DependencyOrderKept ==
    \A a, b \in DOMAIN executed :
        ( /\ a < b
          /\ IsInputGate(executed[a])
          /\ IsInputGate(executed[b])
          /\ ShareWire(gates[executed[a].id], gates[executed[b].id]) )
            => executed[a].id < executed[b].id

\* C4: the main loop terminates.  Each round is a function of the loop-head
\* state (current_layout, to_map, to_execute), so the loop runs for ever
\* exactly when a loop-head state comes back; the property says none does.
C4_MainLoopTerminates == pc # "cycle"

IsBijection(layout) ==
    /\ DOMAIN layout = Qubits
    /\ {layout[q] : q \in Qubits} = Qubits

\* C8: the layout of the main loop and the layout of every look-ahead frame
\* is a bijection between the wires of the DAG and the physical qubits.
C8_LayoutsAreBijections ==
    /\ IsBijection(current_layout)
    /\ \A layout \in frames : IsBijection(layout)

\* a committed swap has changed the layout and the search looked at three
\* layouts or more
C8_SwapsApplied ==
    /\ current_layout # TrivialLayout
    /\ Cardinality(frames) >= 3

\* ------------------------------------------------------ TransformCxCascade
\* A gate node is identified by its id (DAGNode identity); `gate in skip` is
\* membership of the id.  The one-qubit gate of the inputs is u2(0, pi), the
\* Hadamard gate; a new gate made by the pass carries id -1, the copy of a
\* one-qubit gate moved by the pass keeps the id of the gate it copies.

RECURSIVE LayerNumbers(_, _, _)
\* the layer of each gate of the DAG: one more than the last layer holding an
\* earlier gate on one of its wires
LayerNumbers(gs, k, acc) ==
    IF k > Len(gs) THEN acc
    ELSE LayerNumbers(gs, k + 1,
            Append(acc, 1 + SetMax({-1} \cup {acc[j] : j \in {j \in 1 .. (k - 1) :
                                                              ShareWire(gs[j], gs[k])}})))

LayersFrom(gs, numbers) ==
    [l \in 1 .. (IF gs = <<>> THEN 0 ELSE SetMax(Range(numbers)) + 1) |->
        SelectSeq(gs, LAMBDA g : numbers[g.id] = l - 1)]

\* [layer['graph'] for layer in dag.layers()]: the op nodes of each layer, in
\* the order of the input
dag_layers(gs) == LayersFrom(gs, LayerNumbers(gs, 1, <<>>))

\* double_break = True; break
Break(s) == [s EXCEPT !.double_break = TRUE, !.stop = TRUE]

\* if last_layer > layer - 1: last_layer = layer - 1
Before(s, layer) == [s EXCEPT !.last_layer = Min(@, layer - 1)]

\* if last_layer < layer: last_layer = layer
After(s, layer) == [s EXCEPT !.last_layer = Max(@, layer)]

\* check_cascade, the branch of a cx that is in neither skip list
CascadeCx(s, gate, g_control, g_target, target, descending, layer) ==
    IF g_control = target THEN Break(s)
    ELSE IF g_control \in s.off_limits \/ g_target \in s.off_limits
    THEN [s EXCEPT !.off_limits = @ \cup {g_control, g_target},
                   !.used = @ \cup {g_control, g_target}]
    ELSE IF /\ g_target = target
            /\ g_control \notin Range(s.controls)
            /\ g_control \notin s.used
            /\ IF descending THEN g_control > target ELSE g_control < target
    THEN [s EXCEPT !.controls = Append(@, g_control),
                   !.used = @ \cup {g_control},
                   !.skip = Append(@, gate.id)]
    ELSE IF g_target # target /\ g_control # target
    THEN IF g_target \notin s.used /\ g_control \notin s.used
         THEN After(s, layer)
         ELSE Before([s EXCEPT !.off_limits = @ \cup {g_control, g_target},
                               !.used = @ \cup {g_control, g_target}], layer)
    ELSE Break(s)

\* check_inverse_cascade, the branch of a cx that is in neither skip list
InverseCascadeCx(s, gate, g_control, g_target, control, descending, layer) ==
    IF g_target = control THEN Break(s)
    ELSE IF g_control \in s.off_limits \/ g_target \in s.off_limits
    THEN Before([s EXCEPT !.off_limits = @ \cup {g_control, g_target},
                          !.used = @ \cup {g_control, g_target}], layer)
    ELSE IF /\ g_control = control
            /\ g_target \notin Range(s.targets)
            /\ g_target \notin s.used
            /\ IF descending THEN g_target > control ELSE g_target < control
    THEN [s EXCEPT !.targets = Append(@, g_target),
                   !.used = @ \cup {g_target},
                   !.skip = Append(@, gate.id)]
    ELSE IF g_control # control /\ g_target # control
    THEN IF g_control \notin s.used /\ g_target \notin s.used
         THEN After(s, layer)
         ELSE Before([s EXCEPT !.off_limits = @ \cup {g_control, g_target},
                               !.used = @ \cup {g_control, g_target}], layer)
    ELSE Break(s)

\* the branch of an opaque marker none of whose wires is off limits; axis is
\* the target of a cascade, the control of an inverse cascade
ScanOpaque(s, qargs, axis, layer) ==
    IF axis \in qargs THEN Break(Before(s, layer))
    ELSE IF qargs \subseteq s.used
    THEN Before([s EXCEPT !.off_limits = @ \cup qargs], layer)
    ELSE IF qargs \cap s.used = {} THEN After(s, layer)
    ELSE Before([s EXCEPT !.off_limits = @ \cup qargs, !.used = @ \cup qargs], layer)

\* the branch of any other gate none of whose wires is off limits
ScanOneQubit(s, gate, qarg, axis) ==
    IF qarg = axis
    THEN Break([s EXCEPT !.after = Append(@, gate), !.skip = Append(@, gate.id)])
    ELSE IF qarg \notin s.used
    THEN [s EXCEPT !.before = Append(@, gate), !.skip = Append(@, gate.id)]
    ELSE [s EXCEPT !.after = Append(@, gate), !.skip = Append(@, gate.id)]

\* the body of `for gate in self._layers[layer_id + count].op_nodes()`;
\* scan holds the arguments and the flags fixed before the loop
ScanGate(s, gate, scan, self_skip, layer) ==
    IF gate.id \in Range(self_skip)
    THEN IF scan.axis \in Range(gate.qargs) THEN [s EXCEPT !.double_break = TRUE] ELSE s
    ELSE IF gate.id \in Range(s.skip) THEN s
    ELSE IF gate.name = "cx"
    THEN IF scan.inverse
         THEN InverseCascadeCx(s, gate, gate.qargs[1], gate.qargs[2], scan.axis,
                               scan.descending, layer)
         ELSE CascadeCx(s, gate, gate.qargs[1], gate.qargs[2], scan.axis,
                        scan.descending, layer)
    ELSE IF Range(gate.qargs) \cap s.off_limits # {} THEN s
    ELSE IF gate.name \in Opaque THEN ScanOpaque(s, Range(gate.qargs), scan.axis, layer)
    ELSE ScanOneQubit(s, gate, gate.qargs[1], scan.axis)

RECURSIVE ScanLayer(_, _, _, _, _, _)
\* the loop over the op nodes of one layer, from the k-th on
ScanLayer(s, ops, k, scan, self_skip, layer) ==
    IF k > Len(ops) \/ s.stop THEN s
    ELSE ScanLayer(ScanGate(s, ops[k], scan, self_skip, layer), ops, k + 1,
                   scan, self_skip, layer)

RECURSIVE ScanLayers(_, _, _, _, _)
\* count += 1; if double_break is True: break
NextLayerOrStop(s, count, scan, lays, self_skip) ==
    IF s.double_break THEN s ELSE ScanLayers(s, count + 1, scan, lays, self_skip)

\* while count < min([2 * (self._num_qubits - 1), len(self._layers) - layer_id])
ScanLayers(s, count, scan, lays, self_skip) ==
    IF count >= Min(2 * (NumQubits - 1), Len(lays) - scan.layer_id) THEN s
    ELSE NextLayerOrStop(ScanLayer([s EXCEPT !.stop = FALSE],
                                   lays[scan.layer_id + count + 1], 1, scan, self_skip,
                                   scan.layer_id + count),
                         count, scan, lays, self_skip)

NewGate(nm, qs) == GateNode(-1, nm, qs, {})

\* a sequence that walks down to the axis and does not walk back
ZigZagDownOnly(cs, axis) ==
    [k \in 1 .. (Len(cs) - 1) |-> NewGate("cx", <<cs[Len(cs) - k + 1], cs[Len(cs) - k]>>)]
        \o <<NewGate("cx", <<cs[1], axis>>)>>

\* U2Gate(0, pi) on the targets only
HadamardsOnTargets(control, targets) ==
    [k \in DOMAIN targets |-> NewGate("u2", <<targets[k]>>)]

\* the nearest-neighbour sequence for the wires cs (nearest to the axis
\* first): down to the axis and back
ZigZag(cs, axis) ==
    [k \in 1 .. (Len(cs) - 1) |-> NewGate("cx", <<cs[Len(cs) - k + 1], cs[Len(cs) - k]>>)]
        \o <<NewGate("cx", <<cs[1], axis>>)>>
        \o [k \in 1 .. (Len(cs) - 1) |-> NewGate("cx", <<cs[k + 1], cs[k]>>)]

\* sorted(controls) if descending else sorted(controls, reverse=True)
SortedWires(ws, descending) ==
    IF descending THEN SetToSeq(Range(ws))
    ELSE [k \in 1 .. Len(ws) |-> SetToSeq(Range(ws))[Len(ws) - k + 1]]

RECURSIVE BeforeGates(_)
\* `for u in before: for gate in before[u]`: the gates met before the
\* cascade, wire by wire in the order the wires were first met
BeforeGates(before) ==
    IF before = <<>> THEN <<>>
    ELSE SelectSeq(before, LAMBDA g : g.qargs[1] = Head(before).qargs[1])
            \o BeforeGates(SelectSeq(before, LAMBDA g : g.qargs[1] # Head(before).qargs[1]))

NothingFound == [found |-> FALSE, skip |-> <<>>, last_layer |-> 0, queued |-> <<>>]

\* a rewrite that commits on a single control or target
CascadeResultOfOne(s, target, controls) ==
    IF Len(s.controls) > 0
    THEN [found |-> TRUE, skip |-> s.skip, last_layer |-> s.last_layer,
          queued |-> BeforeGates(s.before) \o ZigZag(controls, target) \o s.after]
    ELSE NothingFound

\* `if len(controls) > 1` and what follows: the gates appended to
\* self._extra_layers[last_layer] and the skip list returned
CascadeResult(s, target, controls) ==
    IF Len(s.controls) > 1
    THEN [found |-> TRUE, skip |-> s.skip, last_layer |-> s.last_layer,
          queued |-> BeforeGates(s.before) \o ZigZag(controls, target) \o s.after]
    ELSE NothingFound

\* U2Gate(0, pi) on the control and on every target
Hadamards(control, targets) ==
    <<NewGate("u2", <<control>>)>> \o [k \in DOMAIN targets |-> NewGate("u2", <<targets[k]>>)]

InverseCascadeResult(s, control, targets) ==
    IF Len(s.targets) > 1
    THEN [found |-> TRUE, skip |-> s.skip, last_layer |-> s.last_layer,
          queued |-> BeforeGates(s.before) \o Hadamards(control, targets)
                        \o ZigZag(targets, control) \o Hadamards(control, targets)
                        \o s.after]
    ELSE NothingFound

ScanStart(gate, layer_id) ==
    [skip |-> <<gate.id>>, used |-> Range(gate.qargs), off_limits |-> {},
     before |-> <<>>, after |-> <<>>, last_layer |-> layer_id,
     double_break |-> FALSE, stop |-> FALSE]

CascadeScanned(s, target, descending) ==
    CascadeResult(s, target, SortedWires(s.controls, descending))

\* check_cascade(gate, layer_id)
check_cascade(gate, layer_id, lays, self_skip) ==
    CascadeScanned(
        ScanLayers([controls |-> <<gate.qargs[1]>>] @@ ScanStart(gate, layer_id), 0,
                   [inverse |-> FALSE, axis |-> gate.qargs[2], layer_id |-> layer_id,
                    descending |-> gate.qargs[1] > gate.qargs[2]],
                   lays, self_skip),
        gate.qargs[2], gate.qargs[1] > gate.qargs[2])

InverseCascadeScanned(s, control, descending) ==
    InverseCascadeResult(s, control, SortedWires(s.targets, descending))

\* check_inverse_cascade(gate, layer_id)
check_inverse_cascade(gate, layer_id, lays, self_skip) ==
    InverseCascadeScanned(
        ScanLayers([targets |-> <<gate.qargs[2]>>] @@ ScanStart(gate, layer_id), 0,
                   [inverse |-> TRUE, axis |-> gate.qargs[1], layer_id |-> layer_id,
                    descending |-> gate.qargs[2] > gate.qargs[1]],
                   lays, self_skip),
        gate.qargs[1], gate.qargs[2] > gate.qargs[1])

\* ------------------------------------------ TransformCxCascade as a machine
\* the variables of NoiseAdaptiveSwap while another pass runs
RouterIdle ==
    /\ arguments = <<>>
    /\ config = <<>>
    /\ dag_qregs = <<>>
    /\ candidates = <<>>
    /\ current_layout = <<>>
    /\ to_map = <<>>
    /\ to_execute = <<>>
    /\ executed = <<>>
    /\ frames = {}
    /\ visited = {}

\* The inputs: circuits on a register of NumQubits qubits, of cx gates on
\* any two wires and Hadamard gates (u2(0, pi)) on the first and last wire.
CascadeGateKinds ==
    {<<"cx", <<p[1], p[2]>>, {}>> : p \in {q \in Qubits \X Qubits : q[1] # q[2]}}
    \cup {<<"u2", <<q>>, {}>> : q \in {0, NumQubits - 1}}

CascadeCircuits ==
    {[i \in DOMAIN ks |-> GateNode(i, ks[i][1], ks[i][2], ks[i][3])] :
        ks \in SeqsUpTo(CascadeGateKinds, MaxCascadeGates)}

\* a new instance (__init__) and the DAG it is run on
InitCascade ==
    /\ pc = "run"
    /\ new_dag = <<>>
    /\ gates \in CascadeCircuits
    /\ NothingRaised
    /\ RouterIdle
    /\ CascadeIdle
    /\ ChainIdle
    /\ DriverIdle

CascadeOnly ==
    UNCHANGED <<gates, raised, property_set, routerVars, chainVars, driverVars>>

\* run, up to the loop over the layers
CascadeRunBegin ==
    /\ CascadeOnly
    /\ pc = "run"
    /\ new_dag' = <<>>
    /\ layers' = dag_layers(gates)
    /\ extra_layers' = [l \in 0 .. (Len(dag_layers(gates)) - 1) |-> <<>>]
    /\ layer_index' = 0
    /\ op_index' = 0
    /\ pc' = "layer"
    /\ UNCHANGED <<skip, runs, first_dag>>

\* the head of the loop body: the gates queued after the previous layer are
\* applied
BeginLayer ==
    /\ CascadeOnly
    /\ pc = "layer"
    /\ layer_index < Len(layers)
    /\ new_dag' = IF layer_index # 0 THEN new_dag \o extra_layers[layer_index - 1]
                  ELSE new_dag
    /\ op_index' = 1
    /\ pc' = "gate"
    /\ UNCHANGED <<layers, extra_layers, skip, layer_index, runs, first_dag>>

\* `gate` of `for gate in layer.op_nodes()`
CurrentGate == layers[layer_index + 1][op_index]

AtGate ==
    /\ CascadeOnly
    /\ pc = "gate"
    /\ op_index <= Len(layers[layer_index + 1])
    /\ op_index' = op_index + 1
    /\ UNCHANGED <<pc, layers, layer_index, runs, first_dag>>

\* if gate in self._skip: continue
SkipGate ==
    /\ AtGate
    /\ CurrentGate.id \in Range(skip)
    /\ UNCHANGED <<new_dag, extra_layers, skip>>

\* what a successful check_cascade or check_inverse_cascade leaves behind
Queue(found) ==
    /\ skip' = skip \o found.skip
    /\ extra_layers' = [extra_layers EXCEPT ![found.last_layer] = @ \o found.queued]
    /\ UNCHANGED new_dag

\* check_cascade found a cascade starting at the gate
CascadeFound ==
    /\ AtGate
    /\ CurrentGate.id \notin Range(skip)
    /\ CurrentGate.name = "cx"
    /\ \E found \in {check_cascade(CurrentGate, layer_index, layers, skip)} :
            found.found /\ Queue(found)

\* check_cascade returned None and check_inverse_cascade found a cascade
InverseCascadeFound ==
    /\ AtGate
    /\ CurrentGate.id \notin Range(skip)
    /\ CurrentGate.name = "cx"
    /\ ~check_cascade(CurrentGate, layer_index, layers, skip).found
    /\ \E found \in {check_inverse_cascade(CurrentGate, layer_index, layers, skip)} :
            found.found /\ Queue(found)

\* neither found anything: the cx is applied
ApplyCx ==
    /\ AtGate
    /\ CurrentGate.id \notin Range(skip)
    /\ CurrentGate.name = "cx"
    /\ ~check_cascade(CurrentGate, layer_index, layers, skip).found
    /\ ~check_inverse_cascade(CurrentGate, layer_index, layers, skip).found
    /\ skip' = Append(skip, CurrentGate.id)
    /\ new_dag' = Append(new_dag, CurrentGate)
    /\ UNCHANGED extra_layers

\* any other gate is applied
ApplyOther ==
    /\ AtGate
    /\ CurrentGate.id \notin Range(skip)
    /\ CurrentGate.name # "cx"
    /\ skip' = Append(skip, CurrentGate.id)
    /\ new_dag' = Append(new_dag, CurrentGate)
    /\ UNCHANGED extra_layers

\* the layer has no more gates
EndLayer ==
    /\ CascadeOnly
    /\ pc = "gate"
    /\ op_index > Len(layers[layer_index + 1])
    /\ layer_index' = layer_index + 1
    /\ pc' = "layer"
    /\ UNCHANGED <<new_dag, layers, extra_layers, skip, op_index, runs, first_dag>>

\* dag.depth(): the number of layers
Depth(gs) == IF gs = <<>> THEN 0 ELSE SetMax(Range(LayerNumbers(gs, 1, <<>>))) + 1

\* the gate before and the gate after gs[i] on wire w (0: none)
PrevOnWire(gs, i, w) == SetMax({0} \cup {j \in 1 .. (i - 1) : w \in Range(gs[j].qargs)})
NextOnWire(gs, i, w) ==
    IF \E j \in (i + 1) .. Len(gs) : w \in Range(gs[j].qargs)
    THEN SetMin({j \in (i + 1) .. Len(gs) : w \in Range(gs[j].qargs)})
    ELSE 0

\* the one-qubit gates of the run of gs[i] before it and after it
RECURSIVE RunBefore(_, _)
RunBefore(gs, i) ==
    IF PrevOnWire(gs, i, gs[i].qargs[1]) = 0 THEN 0
    ELSE IF gs[PrevOnWire(gs, i, gs[i].qargs[1])].name # "u2" THEN 0
    ELSE 1 + RunBefore(gs, PrevOnWire(gs, i, gs[i].qargs[1]))

RECURSIVE RunAfter(_, _)
RunAfter(gs, i) ==
    IF NextOnWire(gs, i, gs[i].qargs[1]) = 0 THEN 0
    ELSE IF gs[NextOnWire(gs, i, gs[i].qargs[1])].name # "u2" THEN 0
    ELSE 1 + RunAfter(gs, NextOnWire(gs, i, gs[i].qargs[1]))

\* the gates of gs[i ..] whose position is in kept
RECURSIVE Pick(_, _, _)
Pick(gs, i, kept) ==
    IF i > Len(gs) THEN <<>>
    ELSE (IF i \in kept THEN <<gs[i]>> ELSE <<>>) \o Pick(gs, i + 1, kept)

\* Optimize1qGates().run on a circuit whose one-qubit gates are u2(0, pi):
\* a run of them on a wire is the identity when it is even, and one
\* u2(0, pi), at the place of the first, when it is odd
KeptOneQubit(gs, i) == gs[i].name = "u2" => (RunBefore(gs, i) = 0 /\ RunAfter(gs, i) % 2 = 0)

Optimize1qGates(gs) == Pick(gs, 1, {i \in DOMAIN gs : KeptOneQubit(gs, i)})

\* the cx whose only successor is gs[i], with the operands of gs[i] (0: none)
SameCxBefore(gs, i) ==
    IF /\ PrevOnWire(gs, i, gs[i].qargs[1]) # 0
       /\ PrevOnWire(gs, i, gs[i].qargs[1]) = PrevOnWire(gs, i, gs[i].qargs[2])
       /\ gs[PrevOnWire(gs, i, gs[i].qargs[1])].qargs = gs[i].qargs
    THEN PrevOnWire(gs, i, gs[i].qargs[1])
    ELSE 0

SameCxAfter(gs, i) ==
    IF /\ NextOnWire(gs, i, gs[i].qargs[1]) # 0
       /\ NextOnWire(gs, i, gs[i].qargs[1]) = NextOnWire(gs, i, gs[i].qargs[2])
       /\ gs[NextOnWire(gs, i, gs[i].qargs[1])].qargs = gs[i].qargs
    THEN NextOnWire(gs, i, gs[i].qargs[1])
    ELSE 0

RECURSIVE ChunkAfter(_, _)
ChunkAfter(gs, i) == IF SameCxAfter(gs, i) = 0 THEN 0 ELSE 1 + ChunkAfter(gs, SameCxAfter(gs, i))

\* CXCancellation().run: of a chain of cx gates with the same operands, each
\* the only successor of the one before, none is left when the chain is even
\* and the first when it is odd
KeptCx(gs, i) == gs[i].name = "cx" => (SameCxBefore(gs, i) = 0 /\ ChunkAfter(gs, i) % 2 = 0)

CXCancellation(gs) == Pick(gs, 1, {i \in DOMAIN gs : KeptCx(gs, i)})

\* the two passes are run until the depth stops decreasing
RECURSIVE OptimizeLoop(_, _)
Optimized(gs, depth, optimized) ==
    IF Depth(optimized) < depth THEN OptimizeLoop(optimized, Depth(optimized)) ELSE optimized

OptimizeLoop(gs, depth) == Optimized(gs, depth, CXCancellation(Optimize1qGates(gs)))

\* the loop over the layers is over: the DAG is optimized and returned
CascadeRunReturn ==
    /\ CascadeOnly
    /\ pc = "layer"
    /\ layer_index = Len(layers)
    /\ new_dag' = OptimizeLoop(new_dag, Depth(new_dag))
    /\ runs' = runs + 1
    /\ first_dag' = IF runs = 0 THEN new_dag' ELSE first_dag
    /\ pc' = "done"
    /\ UNCHANGED <<layers, extra_layers, skip, layer_index, op_index>>

\* the same instance is run once more on the same DAG
RunAgain ==
    /\ CascadeOnly
    /\ pc = "done"
    /\ runs = 1
    /\ pc' = "run"
    /\ UNCHANGED <<new_dag, cascadeVars>>

NextCascade ==
    \/ CascadeRunBegin \/ BeginLayer
    \/ SkipGate \/ CascadeFound \/ InverseCascadeFound \/ ApplyCx \/ ApplyOther
    \/ EndLayer \/ CascadeRunReturn \/ RunAgain

SpecCascade == InitCascade /\ [][NextCascade]_vars

\* -------------------------------------- properties of TransformCxCascade
\* The unitary of a circuit of cx and Hadamard gates, up to global phase, is
\* fixed by the images of the Pauli operators X_q and Z_q under conjugation.
\* A Pauli operator is [x, z, r]: the qubits with an X factor, those with a Z
\* factor, and whether its sign is negative.
Toggle(S, q) == IF q \in S THEN S \ {q} ELSE S \cup {q}

ConjugateH(p, a) ==
    [x |-> (p.x \ {a}) \cup (p.z \cap {a}),
     z |-> (p.z \ {a}) \cup (p.x \cap {a}),
     r |-> p.r # (a \in p.x /\ a \in p.z)]

ConjugateCX(p, a, b) ==
    [x |-> IF a \in p.x THEN Toggle(p.x, b) ELSE p.x,
     z |-> IF b \in p.z THEN Toggle(p.z, a) ELSE p.z,
     r |-> p.r # (a \in p.x /\ b \in p.z /\ ((b \in p.x) = (a \in p.z)))]

RECURSIVE Conjugate(_, _)
Conjugate(p, gs) ==
    IF gs = <<>> THEN p
    ELSE Conjugate(CASE Head(gs).name = "cx" ->
                            ConjugateCX(p, Head(gs).qargs[1], Head(gs).qargs[2])
                     [] Head(gs).name = "u2" -> ConjugateH(p, Head(gs).qargs[1])
                     [] OTHER -> p,
                   Tail(gs))

Unitary(gs) ==
    [q \in Qubits |->
        [X |-> Conjugate([x |-> {q}, z |-> {}, r |-> FALSE], gs),
         Z |-> Conjugate([x |-> {}, z |-> {q}, r |-> FALSE], gs)]]

\* the first run of the instance has returned
FirstRunDone == pc = "done" /\ runs = 1

\* C5: the circuit run returns has the unitary of the input circuit, up to
\* global phase (for circuits of cx gates: the same linear map over GF(2)).
C5_UnitaryPreserved == FirstRunDone => Unitary(new_dag) = Unitary(gates)

\* C7: run a second time on the same DAG, the same instance returns what
\* it returned the first time.
C7_SecondRunSameOutput == (pc = "done" /\ runs = 2) => new_dag = first_dag

\* name and operands of each gate of a circuit
Shapes(gs) == [k \in DOMAIN gs |-> <<gs[k].name, gs[k].qargs>>]

Reverse(sq) == [k \in 1 .. Len(sq) |-> sq[Len(sq) - k + 1]]

\* the wires S in the order of their distance from t, nearest first (all of
\* S on one side of t)
AwayFrom(S, t) == IF \A w \in S : w > t THEN SetToSeq(S) ELSE Reverse(SetToSeq(S))

\* cx(am, am-1), ..., cx(a2, a1), cx(a1, t), cx(a2, a1), ..., cx(am, am-1)
ExpectedZigZag(a, t) ==
    [k \in 1 .. (2 * Len(a) - 1) |->
        <<"cx", IF k < Len(a) THEN <<a[Len(a) - k + 1], a[Len(a) - k]>>
                ELSE IF k = Len(a) THEN <<a[1], t>>
                ELSE <<a[k - Len(a) + 1], a[k - Len(a)]>> >>]

\* m >= 2 cx gates with one target and distinct controls on one side of it
IsDirectCascade(gs) ==
    /\ Len(gs) >= 2
    /\ \A k \in DOMAIN gs : gs[k].name = "cx" /\ gs[k].qargs[2] = gs[1].qargs[2]
    /\ \A j, k \in DOMAIN gs : j # k => gs[j].qargs[1] # gs[k].qargs[1]
    /\ \/ \A k \in DOMAIN gs : gs[k].qargs[1] > gs[1].qargs[2]
       \/ \A k \in DOMAIN gs : gs[k].qargs[1] < gs[1].qargs[2]

\* the input of scenario S3 and the output expected for it
S3Input == <<<<"cx", <<1, 0>>>>, <<"cx", <<2, 0>>>>, <<"cx", <<3, 0>>>>>>
S3Output ==
    <<<<"cx", <<3, 2>>>>, <<"cx", <<2, 1>>>>, <<"cx", <<1, 0>>>>,
      <<"cx", <<2, 1>>>>, <<"cx", <<3, 2>>>>>>

\* C9: a circuit that is a direct cascade of m cx gates is returned as the
\* 2m-1 cx gates of the nearest-neighbour sequence, controls sorted away
\* from the target; the input of S3 is returned as the output of S3.
C9_DirectCascadeRewritten ==
    FirstRunDone =>
        /\ IsDirectCascade(gates) =>
              Shapes(new_dag)
                = ExpectedZigZag(AwayFrom({gates[k].qargs[1] : k \in DOMAIN gates},
                                          gates[1].qargs[2]),
                                 gates[1].qargs[2])
        /\ Shapes(gates) = S3Input => Shapes(new_dag) = S3Output

\* run has returned for the input of S3
C9_S3Rewritten == FirstRunDone /\ Shapes(gates) = S3Input /\ Len(new_dag) = 5

\* m >= 2 cx gates with one control and distinct targets on one side of it
IsInverseCascade(gs) ==
    /\ Len(gs) >= 2
    /\ \A k \in DOMAIN gs : gs[k].name = "cx" /\ gs[k].qargs[1] = gs[1].qargs[1]
    /\ \A j, k \in DOMAIN gs : j # k => gs[j].qargs[2] # gs[k].qargs[2]
    /\ \/ \A k \in DOMAIN gs : gs[k].qargs[2] > gs[1].qargs[1]
       \/ \A k \in DOMAIN gs : gs[k].qargs[2] < gs[1].qargs[1]

\* u2 on c and on every wire of a
ExpectedU2(a, c) == <<<<"u2", <<c>>>>>> \o [k \in DOMAIN a |-> <<"u2", <<a[k]>>>>]

ExpectedInverse(a, c) == ExpectedU2(a, c) \o ExpectedZigZag(a, c) \o ExpectedU2(a, c)

S4Input == <<<<"cx", <<0, 1>>>>, <<"cx", <<0, 2>>>>, <<"cx", <<0, 3>>>>>>
S4Output ==
    <<<<"u2", <<0>>>>, <<"u2", <<1>>>>, <<"u2", <<2>>>>, <<"u2", <<3>>>>,
      <<"cx", <<3, 2>>>>, <<"cx", <<2, 1>>>>, <<"cx", <<1, 0>>>>,
      <<"cx", <<2, 1>>>>, <<"cx", <<3, 2>>>>,
      <<"u2", <<0>>>>, <<"u2", <<1>>>>, <<"u2", <<2>>>>, <<"u2", <<3>>>>>>

InverseCascadeRewritten ==
    FirstRunDone =>
        /\ IsInverseCascade(gates) =>
              Shapes(new_dag)
                = ExpectedInverse(AwayFrom({gates[k].qargs[2] : k \in DOMAIN gates},
                                           gates[1].qargs[1]),
                                  gates[1].qargs[1])
        /\ Shapes(gates) = S4Input => Shapes(new_dag) = S4Output

\* a step queues the u2 gates of an inverse cascade
QueuesInverse ==
    \E l \in DOMAIN extra_layers :
        \E k \in DOMAIN extra_layers'[l] :
            /\ k > Len(extra_layers[l])
            /\ extra_layers'[l][k].name = "u2"
            /\ extra_layers'[l][k].id = -1

\* C10: a circuit that is an inverse cascade is returned as u2(0, pi) on the
\* control and every target, the nearest-neighbour sequence around the
\* control, and the u2 gates again (the input of S4 as the output of S4);
\* and the inverse rewrite is queued for a gate only where check_cascade
\* found nothing for it.
C10_InverseCascadeRewritten ==
    /\ []InverseCascadeRewritten
    /\ [][QueuesInverse => ~check_cascade(CurrentGate, layer_index, layers, skip).found]_vars

\* run has returned for the input of S4
C10_S4Rewritten == FirstRunDone /\ Shapes(gates) = S4Input /\ Len(new_dag) = 13

\* ------------------------------------------------ ChainLayout as a machine
\* the largest device chain is called on
MaxDevice == 5

DeviceQubits(n) == 0 .. (n - 1)

\* self.coupling_graph: the neighbours of every qubit.  The source walks them
\* in the order of the adjacency dict; for a coupling list in ascending order
\* that is the ascending order of the qubits.
Adjacency(n, es) ==
    [u \in DeviceQubits(n) |->
        {v \in DeviceQubits(n) : <<u, v>> \in es \/ <<v, u>> \in es}]

RECURSIVE ReachableFrom(_, _)
ReachableFrom(adj, S) ==
    IF \A u \in S : adj[u] \subseteq S THEN S
    ELSE ReachableFrom(adj, S \cup UNION {adj[u] : u \in S})

\* backend_prop: None, or a gate_error of 1/2 for every cx ("uniform"), or
\* of 1/2 and 3/4 ("graded")
ChainCalibrations == {"none", "uniform", "graded"}

\* the connected devices of 2 .. MaxDevice qubits
Devices ==
    UNION {{[size |-> n, adj |-> Adjacency(n, es), cal |-> c] :
                es \in {e \in SUBSET {p \in DeviceQubits(n) \X DeviceQubits(n) : p[1] < p[2]} :
                            ReachableFrom(Adjacency(n, e), {0}) = DeviceQubits(n)},
                c \in ChainCalibrations} :
           n \in 2 .. MaxDevice}

\* self.cx_reliab[(a, b)] = 1.0 - gate_error is a power of two here: the value
\* is its exponent e, for the reliability 2^-e
cx_reliab(dev, a, b) == IF dev.cal = "uniform" THEN 1 ELSE 1 + ((a + b) % 2)

\* an entry of isolated_with_data
IsolatedEntry(dev, anchor, q) ==
    IF dev.cal = "none" THEN <<anchor, q>> ELSE <<anchor, q, cx_reliab(dev, anchor, q)>>

Abs(x) == IF x < 0 THEN -x ELSE x

\* list.remove(x) and list.insert(i, x), i counted from 0
ListRemove(s, x) ==
    IF \E i \in DOMAIN s : s[i] = x
    THEN SubSeq(s, 1, SetMin({i \in DOMAIN s : s[i] = x}) - 1)
            \o SubSeq(s, SetMin({i \in DOMAIN s : s[i] = x}) + 1, Len(s))
    ELSE s

ListInsert(s, i, x) == SubSeq(s, 1, Min(i, Len(s))) \o <<x>> \o SubSeq(s, Min(i, Len(s)) + 1, Len(s))

\* list.index(x), counted from 0
ListIndex(s, x) == SetMin({i \in DOMAIN s : s[i] = x}) - 1

InitChain ==
    /\ pc = "chain"
    /\ new_dag = <<>>
    /\ gates = <<>>
    /\ NothingRaised
    /\ RouterIdle
    /\ CascadeIdle
    /\ DriverIdle
    /\ device \in Devices
    /\ called \in {"run", "chain"}
    /\ num_qubits \in 1 .. (device.size + 1)
    /\ current = 0
    /\ full_map = <<>>
    /\ isolated = <<>>
    /\ isolated_with_data = <<>>
    /\ explored = {}
    /\ to_explore = <<>>
    /\ last_back_step = -1
    /\ remaining = 0
    /\ returned = <<>>

ChainKeeps ==
    UNCHANGED <<new_dag, gates, routerVars, cascadeVars, driverVars, device, called,
                num_qubits>>

ChainOnly == ChainKeeps /\ UNCHANGED property_set

\* run up to its call of chain (num_qubits is the number of qubits of the
\* DAG), or a direct call of chain; then chain, up to the exploration loop
ChainBegin ==
    /\ pc = "chain"
    /\ ChainOnly
    /\ IF num_qubits > device.size
       THEN /\ raised' = "TranspilerError"
            /\ pc' = "raised"
            /\ UNCHANGED <<current, full_map, explored, to_explore>>
       ELSE /\ current' = 0
            /\ full_map' = <<0>>
            /\ explored' = {0}
            /\ to_explore' = ListRemove(SetToSeq(DeviceQubits(device.size)), 0)
            /\ pc' = "explore"
            /\ UNCHANGED raised
    /\ UNCHANGED <<isolated, isolated_with_data, last_back_step, remaining, returned>>

\* the unexplored neighbours of the end of the chain
Neighbors == {n \in device.adj[current] : n \notin explored}

NextQubit == IF current + 1 \in Neighbors THEN current + 1 ELSE SetMin(Neighbors)

\* The chain grows by one qubit.  When qubits are left to explore and the new
\* end has an unexplored neighbour, the dead-end check reads
\* self._undirected_map, an attribute the class never sets: AttributeError.
\* The statements after that read are never reached.
Extend ==
    /\ pc = "explore"
    /\ ChainOnly
    /\ Cardinality(explored) < device.size
    /\ Neighbors # {}
    /\ explored' = explored \cup {NextQubit}
    /\ to_explore' = ListRemove(to_explore, NextQubit)
    /\ current' = NextQubit
    /\ full_map' = Append(full_map, NextQubit)
    /\ IF /\ Cardinality(explored') < device.size - 1
          /\ \E n1 \in device.adj[NextQubit] : n1 \notin explored'
       THEN raised' = "AttributeError" /\ pc' = "raised"
       ELSE pc' = "explore" /\ UNCHANGED raised
    /\ UNCHANGED <<isolated, isolated_with_data, last_back_step, remaining, returned>>

\* the condition of the back step
CanStepBack ==
    /\ full_map[Len(full_map) - 1] # last_back_step
    /\ Abs(to_explore[1] - current) < Len(to_explore)

\* no unexplored neighbour: the end of the chain becomes isolated
BackStep ==
    /\ pc = "explore"
    /\ ChainOnly
    /\ Cardinality(explored) < device.size
    /\ Neighbors = {}
    /\ Len(full_map) >= 2
    /\ CanStepBack
    /\ isolated_with_data' =
          Append(isolated_with_data, IsolatedEntry(device, full_map[Len(full_map) - 1], current))
    /\ isolated' = Append(isolated, current)
    /\ full_map' = ListRemove(full_map, current)
    /\ current' = full_map'[Len(full_map')]
    /\ last_back_step' = current'
    /\ pc' = "explore"
    /\ UNCHANGED <<explored, to_explore, remaining, returned, raised>>

\* no unexplored neighbour and no back step: break (full_map[-2] of a chain
\* of one qubit is an IndexError)
ExploreBreak ==
    /\ pc = "explore"
    /\ ChainOnly
    /\ Cardinality(explored) < device.size
    /\ Neighbors = {}
    /\ IF Len(full_map) < 2
       THEN raised' = "IndexError" /\ pc' = "raised"
       ELSE ~CanStepBack /\ pc' = "link" /\ UNCHANGED raised
    /\ UNCHANGED <<current, full_map, isolated, isolated_with_data, explored,
                   to_explore, last_back_step, remaining, returned>>

\* every qubit is explored
ExploreEnd ==
    /\ pc = "explore"
    /\ ChainOnly
    /\ Cardinality(explored) >= device.size
    /\ pc' = "link"
    /\ UNCHANGED <<current, full_map, isolated, isolated_with_data, explored,
                   to_explore, last_back_step, remaining, returned, raised>>

\* q is recorded as isolated, anchored at anchor
Linked(dev, st, anchor, q) ==
    [isolated |-> Append(st.isolated, q),
     isolated_with_data |-> Append(st.isolated_with_data, IsolatedEntry(dev, anchor, q)),
     explored |-> st.explored \cup {q}]

\* the first isolated qubit q is a neighbour of, else the first neighbour of
\* q in the chain
LinkQubit(dev, chain, st, q) ==
    IF q \in st.explored \/ q \in Range(st.isolated) THEN st
    ELSE IF \E i \in DOMAIN st.isolated : q \in dev.adj[st.isolated[i]]
         THEN Linked(dev, st,
                     st.isolated[SetMin({i \in DOMAIN st.isolated : q \in dev.adj[st.isolated[i]]})],
                     q)
         ELSE IF \E n \in dev.adj[q] : n \in Range(chain)
              THEN Linked(dev, st, SetMin({n \in dev.adj[q] : n \in Range(chain)}), q)
              ELSE st

RECURSIVE LinkFrom(_, _, _, _)
LinkFrom(dev, chain, st, q) ==
    IF q >= dev.size THEN st
    ELSE LinkFrom(dev, chain, LinkQubit(dev, chain, st, q), q + 1)

\* sorted(isolated_with_data, key=lambda x: x[2], reverse=True): the most
\* reliable entry first, entries of equal reliability in their order
RECURSIVE SortedByReliab(_)
SortedByReliab(s) ==
    IF s = <<>> THEN <<>>
    ELSE SelectSeq(SortedByReliab(SubSeq(s, 1, Len(s) - 1)), LAMBDA x : x[3] <= s[Len(s)][3])
            \o <<s[Len(s)]>>
            \o SelectSeq(SortedByReliab(SubSeq(s, 1, Len(s) - 1)), LAMBDA x : x[3] > s[Len(s)][3])

\* the qubits never explored are linked; the isolated qubits are sorted when
\* the chain is too short
Link ==
    /\ pc = "link"
    /\ ChainOnly
    /\ \E st \in {LinkFrom(device, full_map,
                           [isolated |-> isolated,
                            isolated_with_data |-> isolated_with_data,
                            explored |-> explored], 0)} :
          /\ isolated' = st.isolated
          /\ explored' = st.explored
          /\ remaining' = num_qubits - Len(full_map)
          /\ isolated_with_data' =
                IF remaining' > 0 /\ device.cal # "none"
                THEN SortedByReliab(st.isolated_with_data)
                ELSE st.isolated_with_data
          /\ pc' = IF remaining' > 0 THEN "insert" ELSE "best"
    /\ UNCHANGED <<current, full_map, to_explore, last_back_step, returned, raised>>

\* the entries whose anchor is in the chain
Insertable == {i \in DOMAIN isolated_with_data : isolated_with_data[i][1] \in Range(full_map)}

\* the first such entry enters the chain: after its anchor when the anchor is
\* itself an isolated qubit, else before it
InsertEntry(entry) ==
    /\ full_map' =
          ListInsert(full_map,
                     IF entry[1] \in Range(isolated)
                     THEN ListIndex(full_map, entry[1]) + 1
                     ELSE ListIndex(full_map, entry[1]),
                     entry[2])
    /\ isolated_with_data' = ListRemove(isolated_with_data, entry)

Insert ==
    /\ pc = "insert"
    /\ ChainOnly
    /\ remaining > 0
    /\ Insertable # {}
    /\ InsertEntry(isolated_with_data[SetMin(Insertable)])
    /\ remaining' = remaining - 1
    /\ pc' = IF remaining' > 0 THEN "insert" ELSE "best"
    /\ UNCHANGED <<current, isolated, explored, to_explore, last_back_step, returned, raised>>

\* no entry has its anchor in the chain: the for loop ends without a break
\* and `while remaining > 0` runs it again on the same lists, for ever
InsertSpins ==
    /\ pc = "insert"
    /\ ChainOnly
    /\ remaining > 0
    /\ Insertable = {}
    /\ pc' = "spin"
    /\ UNCHANGED <<current, full_map, isolated, isolated_with_data, explored,
                   to_explore, last_back_step, remaining, returned, raised>>

\* the paths of d edges from x to y
RECURSIVE PathsOfLength(_, _, _, _)
PathsOfLength(dev, x, y, d) ==
    IF d = 0 THEN (IF x = y THEN {<<x>>} ELSE {})
    ELSE UNION {{<<x>> \o p : p \in PathsOfLength(dev, w, y, d - 1)} : w \in dev.adj[x]}

RECURSIVE ShortestPathsFrom(_, _, _, _)
ShortestPathsFrom(dev, x, y, d) ==
    IF PathsOfLength(dev, x, y, d) # {} THEN PathsOfLength(dev, x, y, d)
    ELSE ShortestPathsFrom(dev, x, y, d + 1)

RECURSIVE PathReliab(_, _)
PathReliab(dev, p) ==
    IF Len(p) < 2 THEN 0 ELSE 3 * cx_reliab(dev, p[1], p[2]) + PathReliab(dev, Tail(p))

\* what the path shortest_path returns from x to y adds to the score of a
\* window: one per edge without calibration data, else the cube of the
\* reliability of every edge.  networkx returns one of the shortest paths.
PathScores(dev, x, y) ==
    {IF dev.cal = "none" THEN Len(p) - 1 ELSE PathReliab(dev, p) :
        p \in ShortestPathsFrom(dev, x, y, 0)}

\* a choice of shortest path for every pair of consecutive qubits of the chain
RECURSIVE PathChoices(_, _)
PathChoices(dev, chain) ==
    IF Len(chain) < 2 THEN {<<>>}
    ELSE {<<c>> \o rest : c \in PathScores(dev, chain[1], chain[2]),
                          rest \in PathChoices(dev, Tail(chain))}

\* The score of the window at offset, from its pair q on (q from 0).  The
\* test of line 243 looks for sub_set[q + 1] among the neighbours of qubit q.
\* The score is the number of hops without calibration data, else the
\* exponent e of the reliability 2^-e; -1 when cx_reliab has no such key.
RECURSIVE WindowScore(_, _, _, _, _, _)
WindowScore(dev, chain, k, choice, offset, q) ==
    IF q >= k - 1 THEN 0
    ELSE IF chain[offset + q + 2] \notin dev.adj[q]
         THEN IF WindowScore(dev, chain, k, choice, offset, q + 1) = -1 THEN -1
              ELSE choice[offset + q + 1] + WindowScore(dev, chain, k, choice, offset, q + 1)
         ELSE IF dev.cal # "none" /\ chain[offset + q + 2] \notin dev.adj[chain[offset + q + 1]]
              THEN -1
              ELSE IF WindowScore(dev, chain, k, choice, offset, q + 1) = -1 THEN -1
                   ELSE (IF dev.cal = "none" THEN 1
                         ELSE cx_reliab(dev, chain[offset + q + 1], chain[offset + q + 2]))
                        + WindowScore(dev, chain, k, choice, offset, q + 1)

\* the windows from offset on; best_score -1 is the initial best_reliab
\* (infinite without calibration data, else 0), which every score beats
RECURSIVE BestWindow(_, _, _, _, _, _)
WindowScored(dev, chain, k, choice, offset, acc, score) ==
    IF score = -1 THEN [raised |-> "KeyError", best |-> <<>>]
    ELSE IF acc.score = -1 \/ score < acc.score
         THEN BestWindow(dev, chain, k, choice, offset + 1,
                         [score |-> score, best |-> SubSeq(chain, offset + 1, offset + k)])
         ELSE BestWindow(dev, chain, k, choice, offset + 1, acc)

BestWindow(dev, chain, k, choice, offset, acc) ==
    IF offset >= Len(chain) - k THEN [raised |-> "", best |-> acc.best]
    ELSE WindowScored(dev, chain, k, choice, offset, acc,
                      WindowScore(dev, chain, k, choice, offset, 0))

best_subset(dev, chain, k, choice) ==
    BestWindow(dev, chain, k, choice, 0,
               [score |-> -1, best |-> SubSeq(chain, 1, Min(k, Len(chain)))])

\* return self.best_subset(full_map, num_qubits); run then maps the qubits
\* of the DAG to the chain, in order, and sets the layout property
Return ==
    /\ pc = "best"
    /\ ChainKeeps
    /\ \E choice \in PathChoices(device, full_map) :
          \E r \in {best_subset(device, full_map, num_qubits, choice)} :
              /\ raised' = r.raised
              /\ returned' = r.best
              /\ pc' = IF r.raised = "" THEN "done" ELSE "raised"
              /\ property_set' =
                    IF called = "run" /\ r.raised = ""
                    THEN [property_set EXCEPT !.layout = r.best]
                    ELSE property_set
    /\ UNCHANGED <<current, full_map, isolated, isolated_with_data, explored,
                   to_explore, last_back_step, remaining>>

NextChain ==
    \/ ChainBegin
    \/ Extend
    \/ BackStep
    \/ ExploreBreak
    \/ ExploreEnd
    \/ Link
    \/ Insert
    \/ InsertSpins
    \/ Return

SpecChain == InitChain /\ [][NextChain]_vars

\* ------------------------------------------------ properties of ChainLayout
\* C6: for a connected device and k <= |V|, chain(k) raises nothing, does
\* not loop for ever inserting isolated qubits, and returns a list of k
\* distinct qubits of the device.
C6_ChainIsInjectiveList ==
    num_qubits <= device.size =>
        /\ pc # "raised"
        /\ pc # "spin"
        /\ pc = "done" =>
              /\ Len(returned) = num_qubits
              /\ \A i, j \in DOMAIN returned : returned[i] = returned[j] => i = j
              /\ Range(returned) \subseteq DeviceQubits(device.size)

\* the path-graph coupling 0-1-...-(n-1)
PathEdges(n) == {<<i, i + 1>> : i \in 0 .. (n - 2)}

IsPathDevice(dev) == dev.adj = Adjacency(dev.size, PathEdges(dev.size))

\* C11: on a path-graph coupling without calibration data, chain(k) raises
\* nothing and returns [0, 1, ..., k-1], for every k up to the size of the
\* device.
C11_PathChainIsPrefix ==
    (IsPathDevice(device) /\ device.cal = "none" /\ num_qubits <= device.size) =>
        /\ pc # "raised"
        /\ pc # "spin"
        /\ pc = "done" => returned = [i \in 1 .. num_qubits |-> i - 1]

\* the coupling 0-1, 1-2, 2-3, 2-4 of the chain with a pendant qubit
PendantEdges == {<<0, 1>>, <<1, 2>>, <<2, 3>>, <<2, 4>>}

IsPendantDevice(dev) == dev.size = 5 /\ dev.adj = Adjacency(5, PendantEdges)

\* C12: on the coupling 0-1, 1-2, 2-3, 2-4 with uniform reliabilities,
\* chain(4) raises nothing, its exploration ends with the chain [0,1,2,3] and
\* qubit 4 isolated with anchor 2, and it returns [0,1,2,3].
C12_PendantChain ==
    (IsPendantDevice(device) /\ device.cal = "uniform" /\ num_qubits = 4) =>
        /\ pc # "raised"
        /\ pc # "spin"
        /\ pc \in {"link", "best", "done"} =>
              /\ full_map = <<0, 1, 2, 3>>
              /\ (pc # "link" => \E i \in DOMAIN isolated_with_data :
                                    /\ isolated_with_data[i][1] = 2
                                    /\ isolated_with_data[i][2] = 4)
        /\ pc = "done" => returned = <<0, 1, 2, 3>>

\* ------------------------------------------- further properties of the router
\* run has classified the gates of a DAG on the register q
Running == pc \in {"loop", "cycle", "done"}

NumberOf(gs, name) == Cardinality({i \in DOMAIN gs : gs[i].name = name})

\* the input is one cx whose operands are d >= 2 apart on the path
SingleRemoteCx ==
    /\ Running
    /\ config.graph = "path"
    /\ Len(gates) = 1
    /\ gates[1].name = "cx"
    /\ distance["path"][gates[1].qargs[1]][gates[1].qargs[2]] >= 2

AllAdjacent ==
    /\ Running
    /\ \A i \in DOMAIN gates :
          IsTwoQubitGate(gates[i]) => IsEdge(config.graph, gates[i].qargs[1], gates[i].qargs[2])

\* C14: when every two-qubit gate of the input is adjacent under the
\* identity layout, run returns a circuit without swaps whose gates are the
\* gates of the input, in the order of the input, on the same operands.
C14_AdjacentInputUnchanged ==
    AllAdjacent =>
        /\ pc # "cycle"
        /\ pc = "done" => (NumberOf(new_dag, "swap") = 0 /\ new_dag = gates)

\* alpha = numerator / denominator lies in [0, 1]
InUnitInterval(alpha) == 0 <= alpha[1] /\ alpha[1] <= alpha[2]

\* C16: the constructor called with an alpha outside [0, 1] raises
\* TranspilerError and sets no configuration; called with an alpha in
\* [0, 1], 0 and 1 included, it passes the test of alpha (it goes on to set
\* its attributes).
C16_AlphaChecked ==
    (pc # "init" /\ "alpha" \in DOMAIN arguments) =>
        IF InUnitInterval(arguments["alpha"])
        THEN config # <<>> \/ raised = "ZeroDivisionError"
        ELSE pc = "raised" /\ raised = "TranspilerError" /\ config = <<>>

\* the constructor has refused an alpha above 1
C16_AlphaRefused ==
    /\ pc = "raised"
    /\ "alpha" \in DOMAIN arguments
    /\ arguments["alpha"] = <<3, 2>>
    /\ raised = "TranspilerError"

\* ------------------------------------------ ChainLayout and the router
\* either pass, run alone
InitPasses == InitChain \/ InitRouter

NextPasses == NextChain \/ NextRouter

SpecPasses == InitPasses /\ [][NextPasses]_vars

\* C15: with more virtual qubits than the coupling graph has qubits,
\* ChainLayout.run and ChainLayout.chain raise TranspilerError, set no layout
\* property and return no chain; NoiseAdaptiveSwap.run raises TranspilerError
\* and returns no DAG.
C15_CapacityExceeded ==
    /\ (device # <<>> /\ pc # "chain" /\ num_qubits > device.size) =>
          /\ pc = "raised"
          /\ raised = "TranspilerError"
          /\ property_set = PropertySet
          /\ returned = <<>>
    /\ (dag_qregs # <<>> /\ NumDagQubits(dag_qregs) > NumQubits) =>
          /\ pc = "raised"
          /\ raised = "TranspilerError"
          /\ new_dag = <<>>
          /\ executed = <<>>

\* run was called on a DAG whose register q has one qubit more than the
\* device, and has raised
C15_WideDagRefused ==
    /\ dag_qregs = <<QReg("q", NumQubits + 1)>>
    /\ pc = "raised"
    /\ raised = "TranspilerError"

\* ------------------------------- TransformCxCascade behind a layout pass
\* The pipeline PassManager([SetLayout(initial_layout), TransformCxCascade()])
\* on the circuits of fewer than MaxCascadeGates gates.
PipelineCircuits == {c \in CascadeCircuits : Len(c) < MaxCascadeGates}

InitPipeline ==
    /\ pc = "new"
    /\ new_dag = <<>>
    /\ gates \in PipelineCircuits
    /\ NothingRaised
    /\ RouterIdle
    /\ CascadeIdle
    /\ ChainIdle
    /\ DriverIdle

\* TransformCxCascade.__init__.  super().__init__() has just given the
\* instance a property set of its own, a new PropertySet; line 47 reads the
\* layout of that one.
CascadeConstruct ==
    /\ pc = "new"
    /\ IF PropertySet.layout # <<>>
       THEN raised' = "TranspilerError" /\ pc' = "raised"
       ELSE raised' = raised /\ pc' = "constructed"
    /\ skip' = <<>>
    /\ UNCHANGED <<new_dag, gates, property_set, routerVars, chainVars, driverVars,
                   layers, extra_layers, layer_index, op_index, runs, first_dag>>

\* The pass manager runs SetLayout(initial_layout), which sets the layout
\* property to initial_layout (None or a layout), and then hands its
\* property set to the next pass and calls its run.
SetLayout ==
    /\ pc = "constructed"
    /\ \E initial_layout \in {<<>>, TrivialLayout} :
          property_set' = [property_set EXCEPT !.layout = initial_layout]
    /\ pc' = "run"
    /\ UNCHANGED <<new_dag, gates, raised, routerVars, cascadeVars, chainVars, driverVars>>

NextPipeline == CascadeConstruct \/ SetLayout \/ NextCascade

SpecPipeline == InitPipeline /\ [][NextPipeline]_vars

\* C17: once a layout is set in the property set, the rewriter does not
\* run: it raises TranspilerError, and no gate is rewritten or applied.
C17_LayoutPrecondition ==
    property_set.layout # <<>> =>
        /\ pc \in {"run", "raised"}
        /\ pc = "raised" => raised = "TranspilerError"
        /\ new_dag = <<>>
        /\ skip = <<>>

\* ------------------------------------------------------ noise_pass_manager
\* The arguments of noise_pass_manager explored:
\*   backend               "None", "simulator" or "real"
\*   backend_properties, coupling_map     "None" or "given"
\*   symmetric             coupling_map.is_symmetric of the map that is used
\*   layout_method, routing_method, translation_method
\*                         "None", a name the function knows, or "other"
None == "None"

LayoutMethods == {"trivial", "dense", "noise_adaptive", "sabre", "chain"}

RoutingMethods == {"basic", "stochastic", "lookahead", "sabre", "noise_adaptive"}

TranslationMethods == {"unroller", "translator", "synthesis"}

DriverOptions ==
    [backend : {None, "simulator", "real"},
     backend_properties : {None, "given"},
     coupling_map : {None, "given"},
     symmetric : BOOLEAN,
     layout_method : LayoutMethods \cup {None, "other"},
     routing_method : RoutingMethods \cup {None, "other"},
     translation_method : TranslationMethods \cup {None, "other"}]

\* the local variables of the function before its first statement
NoManager ==
    [coupling_map |-> None, backend_properties |-> None, warned |-> FALSE,
     layout_method |-> None, routing_method |-> None, translation_method |-> None,
     choose_layout_2 |-> None, swap |-> <<>>, unroll |-> <<>>, pm3 |-> <<>>]

InitDriver ==
    /\ pc = "backend"
    /\ new_dag = <<>>
    /\ gates = <<>>
    /\ NothingRaised
    /\ RouterIdle
    /\ CascadeIdle
    /\ ChainIdle
    /\ options \in DriverOptions
    /\ manager = NoManager

DriverOnly ==
    UNCHANGED <<new_dag, gates, property_set, routerVars, cascadeVars, chainVars, options>>

\* backend is None or backend.configuration().simulator
NoRealBackend(opts) == opts.backend = None \/ opts.backend = "simulator"

\* the test of line 75 with `and` for `or`
BothMissing(opts) == opts.backend_properties = None /\ opts.coupling_map = None

\* backend_properties is None or coupling_map is None
Missing(opts) == opts.backend_properties = None \/ opts.coupling_map = None

\* lines 72-88: where the coupling map and the properties come from
ResolveBackend ==
    /\ pc = "backend"
    /\ DriverOnly
    /\ IF NoRealBackend(options)
       THEN IF Missing(options)
            THEN /\ raised' = "QiskitError"
                 /\ pc' = "raised"
                 /\ UNCHANGED manager
            ELSE /\ manager' = [manager EXCEPT !.coupling_map = "given",
                                               !.backend_properties = "given"]
                 /\ pc' = "layout"
                 /\ UNCHANGED raised
       ELSE /\ manager' =
                  [manager EXCEPT
                      !.warned = options.backend_properties # None
                                    \/ options.coupling_map # None,
                      !.coupling_map = "backend",
                      !.backend_properties = "backend"]
            /\ pc' = "layout"
            /\ UNCHANGED raised

\* x or default
Or(x, default) == IF x = None THEN default ELSE x

\* the second layout pass, by layout_method
LayoutPass(method) ==
    CASE method = "trivial" -> "TrivialLayout"
      [] method = "dense" -> "DenseLayout"
      [] method = "noise_adaptive" -> "NoiseAdaptiveLayout"
      [] method = "sabre" -> "SabreLayout"
      [] method = "chain" -> "ChainLayout"

\* lines 90-123: the defaults of the methods, and the layout passes
ChooseLayout ==
    /\ pc = "layout"
    /\ DriverOnly
    /\ LET layout_method == Or(options.layout_method, "dense")
       IN  IF layout_method \in LayoutMethods
           THEN /\ manager' =
                      [manager EXCEPT
                          !.layout_method = layout_method,
                          !.routing_method = Or(options.routing_method, "stochastic"),
                          !.translation_method = Or(options.translation_method, "translator"),
                          !.choose_layout_2 = LayoutPass(layout_method)]
                /\ pc' = "swap"
                /\ UNCHANGED raised
           ELSE /\ raised' = "TranspilerError"
                /\ pc' = "raised"
                /\ manager' =
                      [manager EXCEPT
                          !.layout_method = layout_method,
                          !.routing_method = Or(options.routing_method, "stochastic"),
                          !.translation_method = Or(options.translation_method, "translator")]

\* the constructor call of each routing method; the router of this
\* repository is called with the coupling map and the properties only
SwapPass(method) ==
    CASE method = "basic" -> "BasicSwap"
      [] method = "stochastic" -> "StochasticSwap"
      [] method = "lookahead" -> "LookaheadSwap"
      [] method = "sabre" -> "SabreSwap"
      [] method = "noise_adaptive" -> "NoiseAdaptiveSwap"

\* NoiseAdaptiveSwap(coupling_map, backend_properties)
RouterCall == [k \in {"coupling_map", "backend_prop"} |-> "given"]

SwapPassRaises(method) ==
    IF method = "noise_adaptive" THEN InitRaises(RouterCall) ELSE ""

\* lines 125-145: the swap passes
ChooseSwap ==
    /\ pc = "swap"
    /\ DriverOnly
    /\ IF manager.routing_method \in RoutingMethods
       THEN IF SwapPassRaises(manager.routing_method) = ""
            THEN /\ manager' =
                       [manager EXCEPT
                           !.swap = <<"BarrierBeforeFinalMeasurements",
                                      SwapPass(manager.routing_method)>>]
                 /\ pc' = "unroll"
                 /\ UNCHANGED raised
            ELSE /\ raised' = SwapPassRaises(manager.routing_method)
                 /\ pc' = "raised"
                 /\ manager' = [manager EXCEPT !.swap = <<"BarrierBeforeFinalMeasurements">>]
       ELSE /\ raised' = "TranspilerError"
            /\ pc' = "raised"
            /\ manager' = [manager EXCEPT !.swap = <<"BarrierBeforeFinalMeasurements">>]

UnrollPasses(method) ==
    CASE method = "unroller" -> <<"Unroller">>
      [] method = "translator" -> <<"UnrollCustomDefinitions", "BasisTranslator">>
      [] method = "synthesis" ->
            <<"Unroll3qOrMore", "Collect2qBlocks", "ConsolidateBlocks", "UnitarySynthesis">>

\* lines 147-162: the passes that unroll to the basis
ChooseUnroll ==
    /\ pc = "unroll"
    /\ DriverOnly
    /\ IF manager.translation_method \in TranslationMethods
       THEN /\ manager' = [manager EXCEPT !.unroll = UnrollPasses(manager.translation_method)]
            /\ pc' = "build"
            /\ UNCHANGED raised
       ELSE /\ raised' = "TranspilerError"
            /\ pc' = "raised"
            /\ UNCHANGED manager

\* pm3.append(passes, condition=..) or (.., do_while=..)
Stage(passes, control) == [passes |-> passes, control |-> control]

\* lines 164-207: the pass manager.  coupling_map is a CouplingMap here, so
\* `if coupling_map` holds.
BuiltManager(m, symmetric) ==
    <<Stage(<<"Unroll3qOrMore">>, ""),
      Stage(<<"TransformCxCascade">>, ""),
      Stage(<<"RemoveResetInZeroState", "OptimizeSwapBeforeMeasure",
              "RemoveDiagonalGatesBeforeMeasure">>, ""),
      Stage(<<"SetLayout">>, ""),
      Stage(<<"CSPLayout">>, "_choose_layout_condition"),
      Stage(<<m.choose_layout_2>>, "_choose_layout_condition"),
      Stage(<<"FullAncillaAllocation", "EnlargeWithAncilla", "ApplyLayout">>, ""),
      Stage(<<"CheckMap">>, ""),
      Stage(m.swap, "_swap_condition"),
      Stage(m.unroll, ""),
      Stage(<<"Depth", "FixedPoint", "Collect2qBlocks", "ConsolidateBlocks",
              "UnitarySynthesis", "Optimize1qGates", "CommutativeCancellation">>
                \o m.unroll, "_opt_control")>>
        \o (IF symmetric THEN <<>>
            ELSE <<Stage(<<"CheckCXDirection">>, ""),
                   Stage(<<"CXDirection">>, "_direction_condition")>>)
        \o <<Stage(<<"RemoveResetInZeroState">>, "")>>

Build ==
    /\ pc = "build"
    /\ DriverOnly
    /\ manager' = [manager EXCEPT !.pm3 = BuiltManager(manager, options.symmetric)]
    /\ pc' = "done"
    /\ UNCHANGED raised

NextDriver == ResolveBackend \/ ChooseLayout \/ ChooseSwap \/ ChooseUnroll \/ Build

SpecDriver == InitDriver /\ [][NextDriver]_vars

KnownMethods ==
    /\ Or(options.layout_method, "dense") \in LayoutMethods
    /\ Or(options.routing_method, "stochastic") \in RoutingMethods
    /\ Or(options.translation_method, "translator") \in TranslationMethods

\* C19: once the coupling map and the calibration are resolved, the function
\* ends; with known names it returns a pass manager whose swap stage is
\* BarrierBeforeFinalMeasurements followed by the pass of routing_method
\* (NoiseAdaptiveSwap for noise_adaptive); with any other name it raises
\* TranspilerError.
C19_RoutingMethods ==
    (pc \in {"done", "raised"} /\ raised # "QiskitError") =>
        IF KnownMethods
        THEN /\ pc = "done"
             /\ \E i \in DOMAIN manager.pm3 :
                   manager.pm3[i] =
                      Stage(<<"BarrierBeforeFinalMeasurements",
                              SwapPass(Or(options.routing_method, "stochastic"))>>,
                            "_swap_condition")
        ELSE pc = "raised" /\ raised = "TranspilerError"

\* --------------------------------- the candidate swaps of front-layer mode
\* the largest n_swaps the router is constructed with here
MaxSwaps == 5

\* The router in front-layer mode with n_swaps = 1 .. MaxSwaps, run on the
\* circuits of at most two gates; search_depth is not read before the
\* candidates are listed.
FrontConfigs ==
    {[c EXCEPT !.n_swaps = n] :
        c \in {x \in RouterConfigs : x.front /\ x.search_depth = 1}, n \in 1 .. MaxSwaps}

InitSwaps ==
    /\ pc = "search"
    /\ new_dag = <<>>
    /\ NothingRaised
    /\ arguments = <<>>
    /\ config \in FrontConfigs
    /\ dag_qregs = CanonicalRegister
    /\ gates \in {c \in RouterCircuits : Len(c) <= 2}
    /\ current_layout = TrivialLayout
    /\ to_map = <<>>
    /\ to_execute = <<>>
    /\ executed = <<>>
    /\ frames = {}
    /\ visited = {}
    /\ candidates = <<>>
    /\ CascadeIdle
    /\ ChainIdle
    /\ DriverIdle

SwapsOnly ==
    UNCHANGED <<new_dag, gates, raised, property_set, arguments, config, dag_qregs,
                current_layout, frames, visited, cascadeVars, chainVars, driverVars>>

\* run classifies the gates (line 181) and calls search_layout, which
\* classifies them again (line 255)
Classify ==
    /\ pc = "search"
    /\ SwapsOnly
    /\ \E first \in {update_to_map(config, <<>>, current_layout, gates)} :
          \E cls \in {update_to_map(config, first.to_map, current_layout, first.to_execute)} :
              /\ to_map' = cls.to_map
              /\ to_execute' = cls.to_execute
              /\ executed' = first.executed \o cls.executed
    /\ pc' = "classified"
    /\ UNCHANGED candidates

\* no gate is remote: search_layout returns at line 269
NothingRemote ==
    /\ pc = "classified"
    /\ SwapsOnly
    /\ to_map = <<>>
    /\ pc' = "done"
    /\ UNCHANGED <<to_map, to_execute, executed, candidates>>

\* line 272: the candidates handed to the loop of search_layout
ProposeCandidates ==
    /\ pc = "classified"
    /\ SwapsOnly
    /\ to_map # <<>>
    /\ candidates' = new_possible_swaps(config, to_map, current_layout, to_execute, <<>>)
    /\ pc' = "proposed"
    /\ UNCHANGED <<to_map, to_execute, executed>>

NextSwaps == Classify \/ NothingRemote \/ ProposeCandidates

SpecSwaps == InitSwaps /\ [][NextSwaps]_vars

\* every pair (q, v) proposed for the gates of to_map, with its score
Proposed ==
    ProposeSwaps(config, NeighbourPairs(config.graph, FlattenQargs(to_map, current_layout)),
                 {}, <<>>, current_layout, to_execute, to_map)

\* C20: in front-layer mode the candidates handed to the look-ahead are at
\* most n_swaps, the configured value: as many as were proposed if these are
\* fewer, and none of the proposed swaps left out scores higher than one
\* that is kept.
C20_FrontKeepsTopNSwaps ==
    pc = "proposed" =>
        /\ Len(candidates) = Min(config.n_swaps, Len(Proposed))
        /\ \A i \in DOMAIN candidates : \A j \in DOMAIN Proposed :
              Proposed[j].swap \notin {candidates[k].swap : k \in DOMAIN candidates}
                  => ~FracLess(candidates[i].score, Proposed[j].score)

\* ------------------------------------------- swaps that undo one another
\* the committed gates i and i + 1 are swaps on the same physical pair
UndoesPrevious(i) ==
    /\ executed[i].name = "swap"
    /\ executed[i + 1].name = "swap"
    /\ Range(executed[i + 1].qargs) = Range(executed[i].qargs)

\* C21: in front-layer mode no committed swap exactly undoes the swap
\* committed just before it, whether the two come from one call of
\* search_layout or from two successive calls of the main loop.
C21_NoSwapUndone ==
    (pc \in {"loop", "cycle", "done"} /\ config.front) =>
        \A i \in 1 .. (Len(executed) - 1) : ~UndoesPrevious(i)

\* -------------------------------- the candidate swaps of single-gate mode
\* The router in single-gate mode with n_swaps = 1 .. MaxSwaps.
SingleConfigs ==
    {[c EXCEPT !.n_swaps = n] :
        c \in {x \in RouterConfigs : ~x.front /\ x.search_depth = 1}, n \in 1 .. MaxSwaps}

InitSingle ==
    /\ pc = "search"
    /\ new_dag = <<>>
    /\ NothingRaised
    /\ arguments = <<>>
    /\ config \in SingleConfigs
    /\ dag_qregs = CanonicalRegister
    /\ gates \in {c \in RouterCircuits : Len(c) <= 2}
    /\ current_layout = TrivialLayout
    /\ to_map = <<>>
    /\ to_execute = <<>>
    /\ executed = <<>>
    /\ frames = {}
    /\ visited = {}
    /\ candidates = <<>>
    /\ CascadeIdle
    /\ ChainIdle
    /\ DriverIdle

\* the first call of search_layout classifies the gates (line 257)
ClassifySingle ==
    /\ pc = "search"
    /\ SwapsOnly
    /\ \E cls \in {update_to_execute(config, gates, current_layout)} :
          /\ to_map' = cls.to_map
          /\ to_execute' = cls.to_execute
          /\ executed' = cls.executed
    /\ pc' = "classified"
    /\ UNCHANGED candidates

\* line 274: the candidates for the first remote gate
ProposeSingle ==
    /\ pc = "classified"
    /\ SwapsOnly
    /\ to_map # <<>>
    /\ candidates' = possible_swaps(config, to_map[1], current_layout, to_execute,
                                    config.n_swaps)
    /\ pc' = "proposed"
    /\ UNCHANGED <<to_map, to_execute, executed>>

NextSingle == ClassifySingle \/ NothingRemote \/ ProposeSingle

SpecSingle == InitSingle /\ [][NextSingle]_vars

\* the record of a candidate swap: the pair and the score of that pair
Candidate(sw) ==
    [swap |-> sw,
     score |-> score_swap(config, sw, current_layout, to_execute, config.next_gates, <<>>)]

\* C22: in single-gate mode with n_swaps >= 2, for the first remote CNOT
\* with physical endpoints (a, b), the candidate list holds the swap
\* (a, pred(b,a)) and the swap (b, pred(a,b)), each with its own score; it
\* has at most n_swaps entries and is sorted by score, highest first.
C22_SingleGateCandidates ==
    (pc = "proposed" /\ ~config.front /\ config.n_swaps >= 2) =>
        LET a == get_phys_qubit(to_map[1].qargs[1], current_layout)
            b == get_phys_qubit(to_map[1].qargs[2], current_layout)
            pred == swap_paths(config.graph, config.cal)
        IN  /\ \E i \in DOMAIN candidates : candidates[i] = Candidate(<<a, pred[b][a]>>)
            /\ \E i \in DOMAIN candidates : candidates[i] = Candidate(<<b, pred[a][b]>>)
            /\ Len(candidates) <= config.n_swaps
            /\ \A i \in 1 .. (Len(candidates) - 1) :
                  ~FracLess(candidates[i].score, candidates[i + 1].score)

\* ------------------------------------------------- the score of one swap
\* the largest next_gates the router is constructed with here
MaxNextGates == 2

\* The router in either mode with next_gates = 1 .. MaxNextGates, so that
\* the circuits of at most MaxGates gates reach the end of the budget.
ScoreConfigs ==
    {[c EXCEPT !.next_gates = n] :
        c \in {x \in RouterConfigs : x.search_depth = 1 /\ x.n_swaps = 4},
        n \in 1 .. MaxNextGates}

InitScore ==
    /\ pc = "search"
    /\ new_dag = <<>>
    /\ NothingRaised
    /\ arguments = <<>>
    /\ config \in ScoreConfigs
    /\ dag_qregs = CanonicalRegister
    /\ gates \in RouterCircuits
    /\ current_layout = TrivialLayout
    /\ to_map = <<>>
    /\ to_execute = <<>>
    /\ executed = <<>>
    /\ frames = {}
    /\ visited = {}
    /\ candidates = <<>>
    /\ CascadeIdle
    /\ ChainIdle
    /\ DriverIdle

\* the to_map argument of score_swap: the front layer in front-layer mode
\* (line 392), None in single-gate mode (lines 423-464)
ScoredToMap == IF config.front THEN to_map ELSE <<>>

\* one call of score_swap from new_possible_swaps (line 392) or from
\* possible_swaps (lines 423-428), on a qubit of the remote gates and one of
\* its neighbours; candidates keeps the pair and the score returned
ScoreSwap ==
    /\ pc = "classified"
    /\ SwapsOnly
    /\ to_map # <<>>
    /\ \E q \in Range(FlattenQargs(IF config.front THEN to_map ELSE <<to_map[1]>>,
                                   current_layout)) :
          \E v \in coupling_graph[config.graph][q] :
              candidates' =
                  <<[swap |-> <<q, v>>,
                     score |-> score_swap(config, <<q, v>>, current_layout, to_execute,
                                          config.next_gates, ScoredToMap)]>>
    /\ pc' = "scored"
    /\ UNCHANGED <<to_map, to_execute, executed>>

\* the classification that precedes the call, in the mode of the router
ClassifyScored == IF config.front THEN Classify ELSE ClassifySingle

NextScore == ClassifyScored \/ NothingRemote \/ ScoreSwap

SpecScore == InitScore /\ [][NextScore]_vars

\* the gates the claim counts: those of to_map, then the first next_gates
\* two-qubit non-opaque gates of to_execute
CountedGates == ScoredToMap \o FirstTwoQubitGates(to_execute, config.next_gates)

\* C23: score_swap_alpha takes reliab and dist over the same gates under the
\* swapped layout, the gates of to_map and the next next_gates two-qubit
\* non-opaque gates of to_execute (one-qubit gates and opaque markers use
\* none of the budget), and returns alpha*reliab + (1-alpha)*(1-dist).
C23_ScoreOverSameGates ==
    pc = "scored" =>
        candidates[1].score =
            ScoreOnLayout(config,
                          LayoutSwap(current_layout, candidates[1].swap[1],
                                     candidates[1].swap[2]),
                          CountedGates, CountedGates)

\* ------------------------------------------------- the all-pairs swap table
\* The constructor on every coupling map and calibration, those with an edge
\* of reliability 0 included, up to the table self.swap_paths (line 104);
\* then the first look-up of possible_swaps (line 431) for a remote pair.
InitTable ==
    /\ pc = "init"
    /\ new_dag = <<>>
    /\ NothingRaised
    /\ arguments \in {[k \in {"coupling_map"} |-> g] @@ [k \in {"backend_prop"} |-> c] :
                        g \in GraphNames, c \in Calibrations \cup DeadCalibrations}
    /\ config = <<>>
    /\ dag_qregs = <<>>
    /\ gates = <<>>
    /\ current_layout = TrivialLayout
    /\ to_map = <<>>
    /\ to_execute = <<>>
    /\ executed = <<>>
    /\ frames = {}
    /\ visited = {}
    /\ candidates = <<>>
    /\ CascadeIdle
    /\ ChainIdle
    /\ DriverIdle

TableOnly ==
    UNCHANGED <<new_dag, gates, raised, property_set, arguments, dag_qregs, current_layout,
                to_execute, executed, frames, visited, cascadeVars, chainVars, driverVars>>

\* lines 91-105: the weighted graph and its Floyd-Warshall predecessors
BuildTable ==
    /\ pc = "init"
    /\ TableOnly
    /\ config' = [graph |-> arguments["coupling_map"],
                  cal |-> arguments["backend_prop"],
                  swap_paths |-> swap_paths(arguments["coupling_map"],
                                            arguments["backend_prop"])]
    /\ pc' = "built"
    /\ UNCHANGED <<to_map, candidates>>

\* lines 418-431: the step from qubits[0] towards qubits[1] for a remote
\* CNOT on the physical qubits (qubits[0], qubits[1])
StepAlongPath ==
    /\ pc = "built"
    /\ TableOnly
    /\ \E q \in {x \in Qubits \X Qubits : distance[config.graph][x[1]][x[2]] > 1} :
          /\ to_map' = <<GateNode(1, "cx", q, {})>>
          /\ candidates' = <<[swap |-> <<q[1], config.swap_paths[q[2]][q[1]]>>]>>
    /\ pc' = "stepped"
    /\ UNCHANGED config

NextTable == BuildTable \/ StepAlongPath

SpecTable == InitTable /\ [][NextTable]_vars

RECURSIVE PredPath(_, _, _)
\* the path from i to j the table describes: pred[i][j] comes just before j
PredPath(pred, i, j) ==
    IF i = j THEN <<i>> ELSE Append(PredPath(pred, i, pred[i][j]), j)

RECURSIVE SimplePaths(_, _, _, _)
\* every path of the coupling graph from i to j that visits no qubit twice
SimplePaths(g, i, j, seen) ==
    IF i = j THEN {<<i>>}
    ELSE UNION {{<<i>> \o p : p \in SimplePaths(g, n, j, seen \cup {i})} :
                    n \in coupling_graph[g][i] \ (seen \cup {i})}

RECURSIVE PathExp(_, _, _)
\* the reliability of swapping along the path p, as the exponent x of
\* 2^(-x); Dead or more stands for reliability 0
PathExp(g, c, p) ==
    IF Len(p) < 2 THEN 0
    ELSE Min(Dead, 3 * GateErrorExp(c, p[1], p[2]) + PathExp(g, c, Tail(p)))

\* C24: in the all-pairs swap table pred(i,j) lies on a path from i to j of
\* maximum reliability (the product of the swap reliabilities of its
\* edges); a path over an edge of reliability 0 is never chosen when a path
\* of positive reliability exists.
C24_PredOnMostReliablePath ==
    pc \in {"built", "stepped"} =>
        \A i, j \in Qubits :
            i # j =>
                PathExp(config.graph, config.cal, PredPath(config.swap_paths, i, j))
                    = SetMin({PathExp(config.graph, config.cal, p) :
                                p \in SimplePaths(config.graph, i, j, {})})

\* --------------------------------------- the isolated qubits enter the chain
\* the entry Insert takes: the first of isolated_with_data with its anchor
\* in the chain
Inserted == isolated_with_data[SetMin(Insertable)]

\* C25: while the chain is shorter than k, every isolated qubit that is
\* added goes immediately after its anchor, at position index(anchor) + 1,
\* and the entry taken is one of highest reliability among those whose
\* anchor is already in the chain.
C25_InsertedAfterAnchor ==
    [][(pc = "insert" /\ full_map' # full_map) =>
          /\ full_map' = ListInsert(full_map, ListIndex(full_map, Inserted[1]) + 1, Inserted[2])
          /\ device.cal # "none" =>
                \A i \in Insertable : Inserted[3] <= isolated_with_data[i][3]]_vars

\* ------------------------------------------------------- the best window
\* the score the claim gives the pair (x, y) of a window: an edge counts one
\* hop or its reliability, any other pair what its shortest path adds
PairScore(dev, x, y, path_score) ==
    IF y \in dev.adj[x]
    THEN (IF dev.cal = "none" THEN 1 ELSE cx_reliab(dev, x, y))
    ELSE path_score

RECURSIVE SlidingScore(_, _, _, _, _)
\* the score of the window of k qubits at offset, from its pair q on
SlidingScore(dev, chain, k, choice, q) ==
    IF q >= k THEN 0
    ELSE PairScore(dev, chain[q], chain[q + 1], choice[q])
            + SlidingScore(dev, chain, k, choice, q + 1)

\* the first of all the windows of k qubits of the chain with the best score
\* (fewest hops, or highest reliability, that is lowest exponent)
FirstBestWindow(dev, chain, k, choice) ==
    LET offsets == 0 .. (Len(chain) - k)
        Score(o) == SlidingScore(dev, chain, o + k, choice, o + 1)
        best == SetMin({o \in offsets : \A p \in offsets : Score(o) <= Score(p)})
    IN  SubSeq(chain, best + 1, best + k)

\* C26: best_subset(C, k) returns the first window with the best score among
\* all the |C| - k + 1 contiguous windows of k qubits of C, the last one
\* included, a consecutive pair (x, y) counting as an edge exactly when y is
\* a neighbour of x.
C26_FirstBestWindow ==
    (pc = "done" /\ called = "chain") =>
        \E choice \in PathChoices(device, full_map) :
            returned = FirstBestWindow(device, full_map, num_qubits, choice)

\* ------------------------------------------------- pendants and dead ends
\* n, an unexplored neighbour of the new end of the chain, has degree 1 or
\* has no neighbour left to explore
PendantOrDeadEnd(n, seen) ==
    \/ Cardinality(device.adj[n]) = 1
    \/ device.adj[n] \subseteq seen

\* C27: after the chain is extended to a new qubit v, every unexplored
\* neighbour n of v that has degree 1, or whose neighbours are all explored,
\* is marked isolated with anchor v and added to explored; it is not
\* appended to the chain by the exploration.
C27_PendantsMarkedIsolated ==
    [][(pc = "explore" /\ Len(full_map') = Len(full_map) + 1) =>
          LET v == full_map'[Len(full_map')]
          IN  \A n \in device.adj[v] \ (explored \cup {v}) :
                  PendantOrDeadEnd(n, explored \cup {v}) =>
                      /\ pc' # "raised"
                      /\ n \in explored'
                      /\ n \in Range(isolated')
                      /\ IsolatedEntry(device, v, n) \in Range(isolated_with_data')]_vars

\* --------------------------------------------------- when a rewrite commits

\* the input CNOTs the step marks skipped
NewlySkippedCx ==
    {id \in Range(skip') \ Range(skip) : id \in DOMAIN gates /\ gates[id].name = "cx"}

\* the step handles a CNOT that is not yet skipped and queues no rewrite
CxWithoutRewrite ==
    /\ pc = "gate"
    /\ op_index' = op_index + 1
    /\ CurrentGate.name = "cx"
    /\ CurrentGate.id \notin Range(skip)
    /\ extra_layers' = extra_layers

\* C28: a rewrite is queued only by a step that collects two CNOTs or more
\* (the starting CNOT and at least one other control or target).  When the
\* scans from a CNOT collect fewer, that CNOT alone is appended to the
\* output, as it is, and it alone is marked skipped: no gate the scans
\* visited is skipped or moved, and no CNOT is added.
C28_CommitNeedsTwo ==
    [][/\ (pc = "gate" /\ extra_layers' # extra_layers) => Cardinality(NewlySkippedCx) >= 2
       /\ CxWithoutRewrite =>
             /\ new_dag' = Append(new_dag, CurrentGate)
             /\ skip' = Append(skip, CurrentGate.id)]_vars

\* a lone CNOT has been emitted after scans that visited the one-qubit gate
\* that follows it in the input; that gate is neither skipped nor queued
C28_LoneCxEmitted ==
    /\ pc = "gate"
    /\ runs = 0
    /\ Len(gates) >= 2
    /\ gates[1].name = "cx"
    /\ gates[2].name = "u2"
    /\ gates[2].qargs[1] \notin Range(gates[1].qargs)
    /\ new_dag = <<gates[1]>>
    /\ skip = <<1>>
    /\ \A l \in DOMAIN extra_layers : extra_layers[l] = <<>>

\* --------------------------------------------- queued rewrites in the output
\* Circuits of cx gates on any two wires and barriers on the last wire.  A
\* barrier on a wire the scan has not used raises last_layer to its own
\* layer (lines 294-295), as an unrelated CNOT does (lines 245-246); on
\* NumQubits = 4 wires no CNOT is unrelated once two controls are collected.
MarkerGateKinds ==
    {<<"cx", <<p[1], p[2]>>, {}>> : p \in {q \in Qubits \X Qubits : q[1] # q[2]}}
    \cup {<<"barrier", <<NumQubits - 1>>, {}>>}

MarkerCircuits ==
    {[i \in DOMAIN ks |-> GateNode(i, ks[i][1], ks[i][2], ks[i][3])] :
        ks \in SeqsUpTo(MarkerGateKinds, MaxCascadeGates)}

\* a new instance and the DAG it is run on, once
InitMarkers ==
    /\ pc = "run"
    /\ new_dag = <<>>
    /\ gates \in MarkerCircuits
    /\ NothingRaised
    /\ RouterIdle
    /\ CascadeIdle
    /\ ChainIdle
    /\ DriverIdle

NextMarkers ==
    \/ CascadeRunBegin \/ BeginLayer
    \/ SkipGate \/ CascadeFound \/ InverseCascadeFound \/ ApplyCx \/ ApplyOther
    \/ EndLayer \/ CascadeRunReturn

SpecMarkers == InitMarkers /\ [][NextMarkers]_vars

\* the loop over the layers of the first run is over
LayersDone ==
    /\ pc = "layer"
    /\ runs = 0
    /\ layer_index = Len(layers)

\* C29: every rewrite the pass commits reaches the output.  For every layer
\* L, the last layer of the input included, the gates queued for L (the
\* before bag, the zig-zag, the after bag) are appended to the output DAG,
\* so that every input gate marked skipped is represented in the output.
C29_QueuedGatesReachOutput ==
    LayersDone =>
        /\ \A L \in DOMAIN extra_layers : \A k \in DOMAIN extra_layers[L] :
              \E j \in DOMAIN new_dag : new_dag[j] = extra_layers[L][k]
        /\ \A id \in Range(skip) :
              gates[id].name # "cx" => \E j \in DOMAIN new_dag : new_dag[j].id = id

\* ------------------------------------------------ the order of moved gates
\* the output gates i and j are two input gates on a common wire, one of
\* them a one-qubit gate, and i is the earlier in the input
EarlierOnWire(i, j) ==
    /\ new_dag[i].id \in DOMAIN gates
    /\ new_dag[j].id \in DOMAIN gates
    /\ new_dag[i].id < new_dag[j].id
    /\ "u2" \in {new_dag[i].name, new_dag[j].name}
    /\ ShareWire(gates[new_dag[i].id], gates[new_dag[j].id])

\* C30: the pass keeps the order of the gates of a wire for the gates it
\* moves: a one-qubit gate emitted with a rewrite (from the before or the
\* after bag) and any other input gate of the same wire emitted outside the
\* rewrite come in the output in the order they have in the input.
C30_WireOrderKept ==
    LayersDone =>
        \A i, j \in DOMAIN new_dag : EarlierOnWire(i, j) => i < j

====
